---------------------------- MODULE Spec2Model ----------------------------
(***************************************************************************)
(* Verification model of grok-art-proxy: the credential pool, the          *)
(* retry/failover coordinators of the outward routes, the image-collection *)
(* session and the thinking-marker state machine of the text chat stream.  *)
(*                                                                         *)
(* Each component has its own specification (SpecRetry, SpecPool,          *)
(* SpecSession, SpecThink); the variables of the other components stay     *)
(* at their initial value under it.                                        *)
(***************************************************************************)
EXTENDS Integers, Sequences, FiniteSets, Bags, TLC

VARIABLES
  \* ---- credential store (repo/tokens), shared by every component
  tokens,            \* id -> [status, use_count, last_used]; status "absent" = no row
  now,               \* nowMs(): a clock that only moves forward
  \* ---- one outward request in a retry coordinator (routes/*)
  route,             \* which coordinator serves the request
  token_id,          \* the credential the caller names to try first ("" = none)
  count,             \* requested number of images (image coordinators)
  pc,                \* "loop" (loop head) | "gen" (for-await running) | "closed"
  excludedTokenIds,  \* request-scoped exclusion array, as a bag: only its length and
                     \* membership are ever read (length, includes, NOT IN)
  retryCount,
  token,             \* credential of the running attempt ("" = none)
  completed,         \* video: a `complete` update was seen in this attempt
  collected,         \* image: totalCollected / collectedImages.length
  success,           \* chat: success flag
  lastError,         \* lastError / lastRetryableError
  out,               \* what the caller has received so far, in order
  attempts,          \* history: number of generation attempts started
  emitted,           \* bound bookkeeping: item updates forwarded so far
  \* ---- getRandomToken calls of concurrent requests (SpecPool)
  call,              \* per caller: [pc, excludeIds, rows, ret]
  \* ---- one image-collection session (grok/imagine connectAndReceive)
  results, receivedImages, completedJobs, failedJobs, emittedJobs, settled,
  outcome,           \* what the session's promise settled with ("pending" before)
  timer,             \* a 300 ms resolve timer is pending
  timeoutArmed,      \* the session timeout is pending (set, not cleared or fired)
  readyState,        \* ws.readyState: "connecting", "open", "closing", "closed"
  requestSent,       \* ws.send(request) has run: the upstream has a request
  \* ---- one text response (grok/chat streamTextChat)
  showThinking, isThinking, thinkingFinished, chat_pc, events, upstream,
  consumed,          \* history: the upstream lines the read loop was handed so far
  \* ---- credential import (repo/tokens addToken, addTokensBulk)
  table,             \* the rows of the tokens table, with every column
  incoming,          \* the optional fields the administrator's import carries
  importedRaw,       \* history: the secrets as given, imported and not deleted since
  last,              \* history: the last import, [op, ids, existed]
  \* ---- one run of the image driver (grok/imagine generateImages)
  drvCount,          \* the driver's `count` argument
  page,              \* loop variable of the page loop
  collectedJobs,     \* job ids yielded as images so far
  drvEvents,         \* the updates the driver has yielded, in order
  sessions,          \* history: the sessions opened, [isScroll, fresh, rejected]
  drvPc,             \* "loop" (before a page) | "ended" (the generator returned)
  \* ---- the lifetime of one connectAndReceive call, from the call on
  runtime,           \* "node" (ws module) | "worker" (fetch upgrade)
  wsPhase,           \* "upgrade" (Worker: awaiting the upgrade response) |
                     \* "live" (promise created, handlers and timeout set) |
                     \* "failed" (the upgrade gave no socket: the call threw)
  \* ---- the outward consumer of a streaming request
  disconnected,      \* the consumer has gone: the outward stream is cancelled
  delivered,         \* how many events the consumer had received when it went
  \* ---- the upstream answer to the request of streamTextChat
  httpStatus,        \* response.status (0 = fetch rejected)
  errorText,         \* the response body as text
  \* ---- the process-wide catalogue cache (grok/models syncXaiModels)
  xaiModelCache,     \* [ids, updatedAt, lastError, lastStatus]
  syncCall,          \* per caller: "idle" | "fetching" (awaiting the listing)
  syncResult,        \* the XaiModelSyncResult returned last
  syncLast,          \* history: how the call entered last began
  \* ---- getRandomToken calls of concurrent requests, statement by statement
  picking,           \* per caller: [pc, token], the row its SELECT gave it
  picked,            \* history: per credential, the picks that returned it
                     \* since its row was inserted
  \* ---- one lookup in the model catalogue (grok/models)
  requestedModel,    \* the model id the caller asks for
  requestedType,     \* the `type` argument ("" = left out)
  resolved,          \* what resolveModelInfo returned ("pending" before the call)
  found,             \* what findModelCandidates returned
  \* ---- one run of the video orchestrator (grok/video generateVideo)
  video,             \* its position and locals: pc, actualPostId, liked, videoId, ...
  vidArgs,           \* the imageUrl and parentPostId it was called with
  vidCalls,          \* history: the upstream calls issued so far, in order
  vidEvents          \* the updates yielded so far

retryVars == <<route, token_id, count, pc, excludedTokenIds, retryCount, token,
               completed, collected, success, lastError, out, attempts, emitted>>
storeVars == <<tokens, now>>
poolVars == <<call>>
sessionVars == <<results, receivedImages, completedJobs, failedJobs,
                 emittedJobs, settled, outcome, timer, timeoutArmed, readyState,
                 requestSent>>
thinkVars == <<showThinking, isThinking, thinkingFinished, chat_pc, events,
               upstream, consumed>>
importVars == <<table, incoming, importedRaw, last>>
\* The components added after the first four, as one tuple for the frames.
driverVars == <<drvCount, page, collectedJobs, drvEvents, sessions, drvPc>>
connectVars == <<runtime, wsPhase>>
cancelVars == <<disconnected, delivered>>
fetchVars == <<httpStatus, errorText>>
syncVars == <<xaiModelCache, syncCall, syncResult, syncLast>>
usageVars == <<picking, picked>>
resolveVars == <<requestedModel, requestedType, resolved, found>>
videoVars == <<video, vidArgs, vidCalls, vidEvents>>
laterVars == <<importVars, driverVars, connectVars, cancelVars, fetchVars, syncVars,
               usageVars, resolveVars,
               videoVars>>
vars == <<storeVars, retryVars, poolVars, sessionVars, thinkVars, laterVars>>

---------------------------------------------------------------------------
(* Strings: String.prototype.includes and toLowerCase, computed character  *)
(* by character.                                                           *)

includes(s, p) ==
  \E i \in 1..(Len(s) - Len(p) + 1) : SubSeq(s, i, i + Len(p) - 1) = p

LowerChar(c) ==
  CASE c = "A" -> "a" [] c = "B" -> "b" [] c = "C" -> "c" [] c = "D" -> "d"
    [] c = "E" -> "e" [] c = "F" -> "f" [] c = "G" -> "g" [] c = "H" -> "h"
    [] c = "I" -> "i" [] c = "J" -> "j" [] c = "K" -> "k" [] c = "L" -> "l"
    [] c = "M" -> "m" [] c = "N" -> "n" [] c = "O" -> "o" [] c = "P" -> "p"
    [] c = "Q" -> "q" [] c = "R" -> "r" [] c = "S" -> "s" [] c = "T" -> "t"
    [] c = "U" -> "u" [] c = "V" -> "v" [] c = "W" -> "w" [] c = "X" -> "x"
    [] c = "Y" -> "y" [] c = "Z" -> "z" [] OTHER -> c

RECURSIVE toLowerCase(_)
toLowerCase(s) ==
  IF Len(s) = 0 THEN ""
  ELSE LowerChar(SubSeq(s, 1, 1)) \o toLowerCase(SubSeq(s, 2, Len(s)))

---------------------------------------------------------------------------
(* Bounds of the model.                                                    *)

NumTokens == 6      \* credential ids 1..NumTokens; 0 stands for "no credential"
MaxCount == 2       \* largest requested image count
MaxItems == 1       \* item updates (token / image / progress) forwarded per request
MaxRepeats == 1     \* loop rounds per request that leave retryCount as it was
MaxUse == 2         \* getRandomToken picks served under SpecPool
MaxNow == 2         \* clock readings under SpecPool
MaxExclude == 2     \* excludeIds under SpecPool are drawn from 1..MaxExclude
NumJobs == 2        \* job ids 1..NumJobs of a session; 0 stands for a missing job_id
MaxLines == 4       \* lines of one upstream text response

(* Program constants.                                                      *)
MAX_RETRIES == 5
FullBlobLength == 100000   \* a blob longer than this is a full image
BatchSize == 6             \* jobs done (completed + failed) that end a session

TokenIds == 1..NumTokens

---------------------------------------------------------------------------
(* Upstream failures as the generators report them: the cause (the error   *)
(* taxonomy) and the message text the generator code builds for it.  The   *)
(* coordinators see the message only.  Messages that the source continues  *)
(* with a hint for the operator are cut after their first sentence.        *)

Failure(kind, message) == [kind |-> kind, message |-> message]

\* streamChat: streamTextChat, and the image / video models it delegates to
ChatFailures ==
  { Failure("ModelNotFound",    "Unknown model: grok-x"),
    Failure("Transport",        "Network error: fetch failed"),
    Failure("AntiBotChallenge", "Upstream 403 (Cloudflare challenge)."),
    Failure("Forbidden",        "Upstream 403 forbidden."),
    Failure("RateLimited",      "HTTP 429: Too Many Requests"),
    Failure("Unauthorized",     "HTTP 401: Unauthorized"),
    Failure("UpstreamHTTP",     "HTTP 500: Internal Server Error"),
    Failure("RateLimited",      "Rate limited (429)"),
    Failure("ModerationBlocked", "Video generation blocked: content moderated") }

\* generateImages
ImageFailures ==
  { Failure("RateLimited",   "Rate limited (429)"),
    Failure("Transport",     "WebSocket error"),
    Failure("UpstreamError", "Unknown error"),
    Failure("Unauthorized",  "WebSocket upgrade failed: HTTP 401") }

\* generateVideo
VideoFailures ==
  { Failure("AntiBotChallenge", "Upstream 403 (Cloudflare challenge)."),
    Failure("Forbidden",        "Upstream 403 forbidden."),
    Failure("RateLimited",      "HTTP 429: Too Many Requests"),
    Failure("Unauthorized",     "HTTP 401: Unauthorized"),
    Failure("UpstreamHTTP",     "HTTP 500: Internal Server Error"),
    Failure("ModerationBlocked", "Video generation blocked: content moderated"),
    Failure("IncompleteResult", "Video generation incomplete: no videoUrl received"),
    Failure("Transport",        "fetch failed") }

\* reader.read() rejecting inside streamTextChat: the generator throws
ChatThrown == { Failure("Transport", "terminated") }

RetryableKinds == {"RateLimited", "AntiBotChallenge", "Unauthorized"}

---------------------------------------------------------------------------
(* Error classification, one operator per place in the routes.             *)

\* routes/v1/chat.ts, error update (streaming and non-streaming)
chatUpdateRetryable(msg) ==
  includes(msg, "429") \/ includes(msg, "rate") \/ includes(msg, "401")

\* routes/v1/chat.ts, catch block
chatCatchRetryable(msg) ==
  includes(msg, "429") \/ includes(msg, "rate")

\* the later chat route
isRetryableTokenError(message) ==
  LET lowered == toLowerCase(message) IN
    \/ includes(lowered, "429")
    \/ includes(lowered, "rate limited")
    \/ includes(lowered, "rate limit")
    \/ includes(lowered, "too many requests")
    \/ includes(lowered, "cloudflare challenge")
    \/ includes(lowered, "upstream 403")
    \/ includes(lowered, "401")
    \/ includes(lowered, "unauthorized")

\* routes/v1/videos
videosIsRetryableTokenError(message) ==
  LET lowered == toLowerCase(message) IN
    \/ includes(lowered, "429")
    \/ includes(lowered, "rate limited")
    \/ includes(lowered, "cloudflare challenge")
    \/ includes(lowered, "upstream 403")

\* routes/v1/images.ts and routes/imagine.ts
isRateLimitMessage(msg) ==
  includes(msg, "429") \/ includes(msg, "Rate limited")

---------------------------------------------------------------------------
(* Credential store (repo/tokens).                                         *)

\* The SELECT without its NOT IN clause.
ActiveRowsAll(tk, excludeIds) ==
  {t \in DOMAIN tk : tk[t].status = "active"}

\* SELECT ... FROM tokens WHERE status = 'active' AND id NOT IN (excludeIds)
ActiveRows(tk, excludeIds) ==
  {t \in DOMAIN tk : tk[t].status = "active" /\ ~BagIn(t, excludeIds)}

\* The UPDATE of getRandomToken with the usage counter left alone.
TouchTokenNoCount(tk, t, n) ==
  [tk EXCEPT ![t].last_used = n]

\* UPDATE tokens SET last_used = ?, use_count = use_count + 1 WHERE id = ?
TouchToken(tk, t, n) ==
  [tk EXCEPT ![t].use_count = @ + 1, ![t].last_used = n]

\* SELECT ... FROM tokens WHERE id = ?   (0 = null)
getToken(tk, id) ==
  IF id \in DOMAIN tk /\ tk[id].status # "absent" THEN id ELSE 0

Row(status) == [status |-> status, use_count |-> 0, last_used |-> 0]

\* The last call into the repository and what it returned (0 = null).
Call(op, excludeIds, result) ==
  [op |-> op, excludeIds |-> excludeIds, result |-> result]
NoCall == Call("none", EmptyBag, 0)

\* Stores the components start from: the first k credentials active, the
\* next one disabled, the others not in the store.
StoreWith(k) ==
  [t \in TokenIds |->
     IF t <= k THEN Row("active")
     ELSE IF t = k + 1 THEN Row("disabled") ELSE Row("absent")]

\* The optional arguments of an import: sso_rw, user_id, cf_clearance, name.
Fields(sso_rw, user_id, cf_clearance, name) ==
  [sso_rw |-> sso_rw, user_id |-> user_id, cf_clearance |-> cf_clearance,
   name |-> name]
NoFields == Fields("", "", "", "")

\* The last import and the ids it applied to (none before the first).
Import(op, ids, existed) == [op |-> op, ids |-> ids, existed |-> existed]
NoImport == Import("none", {}, {})

\* A ModelInfo (the display name left out) and the results of a lookup:
\* a ResolvedModelInfo, with matchedBy "none" for null, and a candidate list.
Model(id, grokModel, modelMode, type) ==
  [id |-> id, grokModel |-> grokModel, modelMode |-> modelMode, type |-> type]
NoModel == Model("", "", "", "")
Resolved(requested, matchedBy, model, candidates) ==
  [requested |-> requested, matchedBy |-> matchedBy, model |-> model,
   candidates |-> candidates]
NoResolved == Resolved("", "pending", NoModel, <<>>)
NoneFound == [done |-> FALSE, models |-> <<>>]

\* The locals of generateVideo; exit records how the run ended ("" while it
\* runs), moderatedSeen that a moderated line was read.
VideoLocals(pcv, actualPostId, liked, videoId, videoUrl, lastProgress, reads, exit,
            moderatedSeen) ==
  [pc |-> pcv, actualPostId |-> actualPostId, liked |-> liked, videoId |-> videoId,
   videoUrl |-> videoUrl, lastProgress |-> lastProgress, reads |-> reads,
   exit |-> exit, moderatedSeen |-> moderatedSeen]
NoVideo == VideoLocals("ended", "", FALSE, "", "", -1, 0, "idle", FALSE)
NoVideoArgs == [imageUrl |-> "", parentPostId |-> ""]

\* The requests that call getRandomToken at the same time, none of them
\* between its two statements, and no pick counted yet.
NumPickers == 2
Pickers == 1..NumPickers
Picking(pcv, excludeIds, t) == [pc |-> pcv, excludeIds |-> excludeIds, token |-> t]
NoPicking == [c \in Pickers |-> Picking("idle", EmptyBag, 0)]
NoPicks == [t \in TokenIds |-> 0]

\* The catalogue cache as the module creates it, and the callers of a sync.
NumSyncCalls == 2
SyncCallers == 1..NumSyncCalls
EmptyCache == [ids |-> <<>>, updatedAt |-> 0, lastError |-> "", lastStatus |-> 0]
NoSyncCall == [c \in SyncCallers |-> "idle"]

\* An XaiModelSyncResult; updatedAt 0 stands for null (`updatedAt || null`),
\* status 0 and error "" for an absent field.
SyncResult(isOk, fromCache, ids, updatedAt, st, error) ==
  [ok |-> isOk, fromCache |-> fromCache, ids |-> ids, updatedAt |-> updatedAt,
   status |-> st, error |-> error]
NoSyncResult == SyncResult(FALSE, FALSE, <<>>, 0, 0, "none")

\* What the listing request came to: an HTTP answer with its status and its
\* body (as text and as what response.json() makes of it), or a rejection.
SyncResponse(kind, st, text, payload) ==
  [kind |-> kind, status |-> st, text |-> text, payload |-> payload]
NoPayload == [json |-> "null", data |-> <<>>]
NoResponse == SyncResponse("none", 0, "", NoPayload)

\* The last step of a sync: a call that began ("call": its arguments, the
\* cache and the clock it read, whether it went on to fetch) or a fetch that
\* came back ("done": the cache before, the clock, the response).
SyncBegin(force, ttl, cache, at, fetched) ==
  [op |-> "call", force |-> force, ttlMs |-> ttl, cache |-> cache, at |-> at,
   fetched |-> fetched, response |-> NoResponse]
SyncDone(cache, at, response) ==
  [op |-> "done", force |-> FALSE, ttlMs |-> 0, cache |-> cache, at |-> at,
   fetched |-> TRUE, response |-> response]
NoSync == [op |-> "none", force |-> FALSE, ttlMs |-> 0, cache |-> EmptyCache,
           at |-> 0, fetched |-> FALSE, response |-> NoResponse]

---------------------------------------------------------------------------
(* Retry coordinators: one outward request.                                *)

Routes == {"chatStream", "chat", "chatStream2", "chat2",
           "images", "videos", "imagine", "video"}

Kind(r) ==
  CASE r \in {"chatStream", "chat", "chatStream2", "chat2"} -> "chat"
    [] r \in {"images", "imagine"} -> "image"
    [] r \in {"videos", "video"} -> "video"

Streaming(r) == r \in {"chatStream", "chatStream2", "imagine", "video"}
ChatStreaming(r) == r \in {"chatStream", "chatStream2"}
HasTokenId(r) == r \in {"imagine", "video"}

Failures(r) ==
  CASE Kind(r) = "chat" -> ChatFailures
    [] Kind(r) = "image" -> ImageFailures
    [] Kind(r) = "video" -> VideoFailures

Thrown(r) == IF Kind(r) = "chat" THEN ChatThrown ELSE {}

\* the test applied to the message of an `error` update
updateRetryable(r, msg) ==
  CASE r \in {"chatStream", "chat"} -> chatUpdateRetryable(msg)
    [] r \in {"chatStream2", "chat2"} -> isRetryableTokenError(msg)
    [] r = "videos" -> videosIsRetryableTokenError(msg)
    [] r \in {"images", "imagine", "video"} -> isRateLimitMessage(msg)

\* the test applied to the message of a caught exception
catchRetryable(r, msg) ==
  CASE r \in {"chatStream", "chat"} -> chatCatchRetryable(msg)
    [] r \in {"chatStream2", "chat2"} -> isRetryableTokenError(msg)
    [] r = "videos" -> videosIsRetryableTokenError(msg)
    [] r \in {"images", "imagine", "video"} -> isRateLimitMessage(msg)

\* excludedTokenIds.push(token.id), guarded by includes() in the later chat route
Exclude(r, ex, t) ==
  IF r \in {"chatStream2", "chat2"} /\ BagIn(t, ex) THEN ex ELSE ex (+) SetToBag({t})

\* What the caller receives: SSE events / chunks (status 0) and JSON
\* responses (status = HTTP status).
Ev(type, message) == [type |-> type, message |-> message, status |-> 0]
Response(message, status) ==
  [type |-> "response", message |-> message, status |-> status]

ErrorChunk(msg) == Ev("content", "[Error: " \o msg \o "]")

\* The loop condition without the retry bound.
LoopCondUnbounded == Kind(route) = "image" => collected < count

\* while (retryCount < MAX_RETRIES [&& collected < count])
LoopCond ==
  /\ retryCount < MAX_RETRIES
  /\ Kind(route) = "image" => collected < count

\* The code after the retry loop, reached by loop exit and by `break`.
AfterLoop(o, ok, n, err) ==
  CASE ChatStreaming(route) ->
         o \o <<Ev("finish", "stop"), Ev("DONE", "")>>
    [] route \in {"chat", "chat2"} ->
         IF ~ok
         THEN Append(o, Response(IF err # "" THEN err ELSE "Failed after retries", 429))
         ELSE Append(o, Response("chat.completion", 200))
    [] route = "images" ->
         IF n = 0
         THEN Append(o, Response("Failed to generate any images after multiple retries", 500))
         ELSE Append(o, Response("images", 200))
    [] route = "videos" ->
         Append(o, Response(IF err # "" THEN err
                            ELSE "Video generation failed after multiple attempts", 429))
    [] route = "imagine" -> IF n > 0 THEN Append(o, Ev("done", "")) ELSE o
    [] route = "video" -> o

Close(o) == out' = o /\ pc' = "closed"

\* token_id && retryCount === 0 ? getToken(db, token_id) : null
Preferred ==
  IF HasTokenId(route) /\ token_id # 0 /\ retryCount = 0
  THEN getToken(tokens, token_id) ELSE 0

\* Loop head, a credential is found: getToken(token_id) on the first round,
\* else getRandomToken(db, excludedTokenIds); the attempt starts.
PickToken ==
  /\ pc = "loop" /\ LoopCond
  /\ attempts - retryCount <= MaxRepeats
  /\ IF Preferred # 0
     THEN token' = Preferred /\ UNCHANGED storeVars
     ELSE \E t \in ActiveRows(tokens, excludedTokenIds) :
            /\ token' = t
            /\ tokens' = TouchToken(tokens, t, now)
            /\ UNCHANGED now
  /\ pc' = "gen"
  /\ completed' = FALSE
  /\ attempts' = attempts + 1
  /\ UNCHANGED <<route, token_id, count, excludedTokenIds, retryCount,
                 collected, success, lastError, out, emitted>>
  /\ UNCHANGED <<poolVars, sessionVars, thinkVars, laterVars>>

\* One message for both cases of "no credential".
NoTokenMessageSame(r, ex) ==
  IF ChatStreaming(r) THEN "[Error: No available tokens]" ELSE "No available tokens"

NoTokenMessage(r, ex) ==
  CASE ChatStreaming(r) ->
         IF BagCardinality(ex) > 0 THEN "[Error: All tokens rate limited]"
         ELSE "[Error: No available tokens]"
    [] r \in {"chat", "chat2"} ->
         IF BagCardinality(ex) > 0
         THEN "All tokens rate limited (tried " \o ToString(BagCardinality(ex)) \o ")"
         ELSE "No available tokens"
    [] r \in {"images", "videos", "imagine", "video"} ->
         IF BagCardinality(ex) > 0
         THEN "All tokens rate limited (tried " \o ToString(BagCardinality(ex)) \o " tokens)"
         ELSE "No available tokens. Please import tokens first."

\* Loop head, no credential: if (!token) { ... }
NoToken ==
  /\ pc = "loop" /\ LoopCond
  /\ Preferred = 0
  /\ ActiveRows(tokens, excludedTokenIds) = {}
  /\ LET m == NoTokenMessage(route, excludedTokenIds)
         n == BagCardinality(excludedTokenIds) IN
       CASE ChatStreaming(route) ->
              Close(AfterLoop(Append(out, Ev("content", m)), success, collected, lastError))
         [] route \in {"chat", "chat2", "images", "videos"} ->
              Close(Append(out, Response(m, IF n > 0 THEN 429 ELSE 503)))
         [] route \in {"imagine", "video"} ->
              Close(AfterLoop(Append(out, Ev("error", m)), success, collected, lastError))
  /\ token' = 0
  /\ UNCHANGED <<storeVars, route, token_id, count, excludedTokenIds, retryCount,
                 completed, collected, success, lastError, attempts, emitted>>
  /\ UNCHANGED <<poolVars, sessionVars, thinkVars, laterVars>>

\* The loop condition is false: the code after the loop runs.
LoopExit ==
  /\ pc = "loop" /\ ~LoopCond
  /\ Close(AfterLoop(out, success, collected, lastError))
  /\ UNCHANGED <<storeVars, route, token_id, count, excludedTokenIds, retryCount,
                 token, completed, collected, success, lastError, attempts, emitted>>
  /\ UNCHANGED <<poolVars, sessionVars, thinkVars, laterVars>>

\* Retryable failure of the running attempt: exclude the credential, count
\* the retry, (SSE image / video routes) tell the caller, go round again.
SwitchToken(msg) ==
  /\ excludedTokenIds' = Exclude(route, excludedTokenIds, token)
  /\ retryCount' = retryCount + 1
  /\ lastError' = IF route \in {"chat", "chat2", "videos"} THEN msg ELSE lastError
  /\ out' = IF route \in {"imagine", "video"}
            THEN Append(out, Ev("info",
                   "Token rate limited, switching to another (attempt "
                     \o ToString(retryCount') \o "/" \o ToString(MAX_RETRIES) \o ")"))
            ELSE out
  /\ pc' = "loop"

\* An `error` update arrives.
GenError(f) ==
  /\ pc = "gen"
  /\ ~completed
  /\ f \in Failures(route)
  /\ IF updateRetryable(route, f.message)
     THEN SwitchToken(f.message)
     ELSE /\ CASE route = "chatStream" ->
                    \* `break` leaves the for-await only; `if (success) break`
                    \* does not fire, so the while loop goes round again.
                    /\ out' = Append(out, ErrorChunk(f.message))
                    /\ pc' = "loop"
               [] route = "chatStream2" ->
                    \* terminalError = true; break; ... if (terminalError) break;
                    Close(AfterLoop(Append(out, ErrorChunk(f.message)),
                                    success, collected, lastError))
               [] route \in {"chat", "chat2", "images", "videos"} ->
                    Close(Append(out, Response(f.message, 500)))
               [] route \in {"imagine", "video"} ->
                    Close(Append(out, Ev("error", f.message)))
          /\ UNCHANGED <<excludedTokenIds, retryCount, lastError>>
  /\ UNCHANGED <<storeVars, route, token_id, count, token, completed, collected,
                 success, attempts, emitted>>
  /\ UNCHANGED <<poolVars, sessionVars, thinkVars, laterVars>>

\* The generator throws; the catch block of the loop body runs.
GenThrow(f) ==
  /\ pc = "gen"
  /\ f \in Thrown(route)
  /\ IF catchRetryable(route, f.message)
     THEN SwitchToken(f.message)
     ELSE /\ CASE ChatStreaming(route) ->
                    Close(AfterLoop(Append(out, ErrorChunk(f.message)),
                                    success, collected, lastError))
               [] route \in {"chat", "chat2", "images", "videos"} ->
                    Close(Append(out, Response(f.message, 500)))
               [] route \in {"imagine", "video"} ->
                    Close(AfterLoop(Append(out, Ev("error", f.message)),
                                    success, collected, lastError))
          /\ UNCHANGED <<excludedTokenIds, retryCount, lastError>>
  /\ UNCHANGED <<storeVars, route, token_id, count, token, completed, collected,
                 success, attempts, emitted>>
  /\ UNCHANGED <<poolVars, sessionVars, thinkVars, laterVars>>

\* A `token` (chat), `image` (image) or `progress` (video) update arrives.
GenItem ==
  /\ pc = "gen"
  /\ emitted < MaxItems
  /\ emitted' = emitted + 1
  /\ CASE Kind(route) = "chat" ->
            /\ out' = IF ChatStreaming(route)
                      THEN Append(out, Ev("content", "tok")) ELSE out
            /\ UNCHANGED <<pc, collected>>
       [] route = "images" ->
            /\ collected < count
            /\ collected' = collected + 1
            /\ IF collected' >= count
               THEN Close(AfterLoop(out, success, collected', lastError))
               ELSE UNCHANGED <<pc, out>>
       [] route = "imagine" ->
            /\ collected < count
            /\ collected' = collected + 1
            /\ out' = out \o <<Ev("image", ""), Ev("progress", "collecting")>>
            /\ UNCHANGED pc
       [] Kind(route) = "video" ->
            /\ ~completed
            /\ out' = IF route = "video" THEN Append(out, Ev("progress", "")) ELSE out
            /\ UNCHANGED <<pc, collected>>
  /\ UNCHANGED <<storeVars, route, token_id, count, excludedTokenIds, retryCount,
                 token, completed, success, lastError, attempts>>
  /\ UNCHANGED <<poolVars, sessionVars, thinkVars, laterVars>>

\* A `complete` update arrives (video generator).
GenComplete ==
  /\ pc = "gen"
  /\ Kind(route) = "video"
  /\ ~completed
  /\ completed' = TRUE
  /\ out' = IF route = "video" THEN Append(out, Ev("complete", "")) ELSE out
  /\ UNCHANGED <<storeVars, route, token_id, count, pc, excludedTokenIds,
                 retryCount, token, collected, success, lastError, attempts, emitted>>
  /\ UNCHANGED <<poolVars, sessionVars, thinkVars, laterVars>>

\* A `done` update arrives; the video generator sends it after `complete` only.
GenDone ==
  /\ pc = "gen"
  /\ Kind(route) = "video" => completed
  /\ CASE Kind(route) = "chat" ->
            /\ success' = TRUE
            /\ Close(AfterLoop(out, TRUE, collected, lastError))
       [] route = "images" ->
            /\ IF collected >= count
               THEN Close(AfterLoop(out, success, collected, lastError))
               ELSE pc' = "loop" /\ UNCHANGED out
            /\ UNCHANGED success
       [] route = "imagine" ->
            /\ IF collected >= count
               THEN Close(Append(out, Ev("done", "")))
               ELSE pc' = "loop" /\ UNCHANGED out
            /\ UNCHANGED success
       [] route = "videos" ->
            /\ Close(Append(out, Response("video", 200)))
            /\ UNCHANGED success
       [] route = "video" ->
            /\ Close(Append(out, Ev("done", "")))
            /\ UNCHANGED success
  /\ UNCHANGED <<storeVars, route, token_id, count, excludedTokenIds, retryCount,
                 token, completed, collected, lastError, attempts, emitted>>
  /\ UNCHANGED <<poolVars, sessionVars, thinkVars, laterVars>>

---------------------------------------------------------------------------
(* Initial values of each component.                                       *)

RetryInit ==
  /\ \E k \in 0..NumTokens : tokens = StoreWith(k)
  /\ now = 1
  /\ route \in Routes
  /\ token_id \in (IF HasTokenId(route) THEN {0, 1} ELSE {0})
  /\ count \in (IF Kind(route) = "image" THEN 1..MaxCount ELSE {0})
  /\ pc = "loop"
  /\ excludedTokenIds = EmptyBag
  /\ retryCount = 0
  /\ token = 0
  /\ completed = FALSE
  /\ collected = 0
  /\ success = FALSE
  /\ lastError = ""
  /\ out = IF ChatStreaming(route) THEN <<Ev("role", "assistant")>> ELSE <<>>
  /\ attempts = 0
  /\ emitted = 0
  /\ call = NoCall
  /\ results = <<>> /\ receivedImages = <<>> /\ completedJobs = {}
  /\ failedJobs = {} /\ emittedJobs = {} /\ settled = TRUE
  /\ outcome = "resolved" /\ timer = FALSE
  /\ timeoutArmed = FALSE /\ readyState = "closed" /\ requestSent = FALSE
  /\ showThinking = TRUE /\ isThinking = FALSE /\ thinkingFinished = FALSE
  /\ chat_pc = "closed" /\ events = <<>> /\ upstream = <<>> /\ consumed = <<>>
  /\ table = {} /\ incoming = NoFields /\ importedRaw = {} /\ last = NoImport
  /\ drvCount = 0 /\ page = 0 /\ collectedJobs = {} /\ drvEvents = <<>>
  /\ sessions = <<>> /\ drvPc = "ended"
  /\ runtime = "node" /\ wsPhase = "live"
  /\ disconnected = FALSE /\ delivered = 0
  /\ httpStatus = 200 /\ errorText = ""
  /\ xaiModelCache = EmptyCache /\ syncCall = NoSyncCall
  /\ syncResult = NoSyncResult /\ syncLast = NoSync
  /\ picking = NoPicking /\ picked = NoPicks
  /\ requestedModel = "" /\ requestedType = ""
  /\ resolved = NoResolved /\ found = NoneFound
  /\ video = NoVideo /\ vidArgs = NoVideoArgs
  /\ vidCalls = <<>> /\ vidEvents = <<>>

---------------------------------------------------------------------------
(* Specification of one request in a retry coordinator.                    *)

RetryNext ==
  \/ PickToken
  \/ NoToken
  \/ LoopExit
  \/ GenItem
  \/ GenComplete
  \/ GenDone
  \/ \E f \in ChatFailures \cup ImageFailures \cup VideoFailures : GenError(f)
  \/ \E f \in ChatThrown : GenThrow(f)

SpecRetry == RetryInit /\ [][RetryNext]_vars

---------------------------------------------------------------------------
(* A streaming request whose consumer may go away.  The coordinators have   *)
(* no cancel handler: the task notices only when it writes to the outward   *)
(* stream, where controller.enqueue / writer.write then throws; the error   *)
(* handling writes again, so the exception leaves the task.  Past the       *)
(* disconnect `out` holds what the task tried to write.                     *)

\* The consumer disconnects while the task is running.
Disconnect ==
  /\ pc # "closed"
  /\ ~disconnected
  /\ disconnected' = TRUE
  /\ delivered' = Len(out)
  /\ UNCHANGED <<storeVars, retryVars, poolVars, sessionVars, thinkVars,
                 importVars, driverVars, connectVars, fetchVars,
                 syncVars,
                 usageVars,
                 resolveVars,
                 videoVars>>

\* A write after the disconnect has thrown: the task is over.
Broken == disconnected /\ Len(out) > delivered

CPickToken == ~Broken /\ PickToken
CNoToken == ~Broken /\ NoToken
CLoopExit == ~Broken /\ LoopExit
CGenItem == ~Broken /\ GenItem
CGenComplete == ~Broken /\ GenComplete
CGenDone == ~Broken /\ GenDone
CGenError(f) == ~Broken /\ GenError(f)
CGenThrow(f) == ~Broken /\ GenThrow(f)

CancelInit ==
  /\ \E k \in 0..NumTokens : tokens = StoreWith(k)
  /\ now = 1
  /\ route \in {r \in Routes : Streaming(r)}
  /\ token_id \in (IF HasTokenId(route) THEN {0, 1} ELSE {0})
  /\ count \in (IF Kind(route) = "image" THEN 1..MaxCount ELSE {0})
  /\ pc = "loop"
  /\ excludedTokenIds = EmptyBag
  /\ retryCount = 0
  /\ token = 0
  /\ completed = FALSE
  /\ collected = 0
  /\ success = FALSE
  /\ lastError = ""
  /\ out = IF ChatStreaming(route) THEN <<Ev("role", "assistant")>> ELSE <<>>
  /\ attempts = 0
  /\ emitted = 0
  /\ call = NoCall
  /\ results = <<>> /\ receivedImages = <<>> /\ completedJobs = {}
  /\ failedJobs = {} /\ emittedJobs = {} /\ settled = TRUE
  /\ outcome = "resolved" /\ timer = FALSE
  /\ timeoutArmed = FALSE /\ readyState = "closed" /\ requestSent = FALSE
  /\ showThinking = TRUE /\ isThinking = FALSE /\ thinkingFinished = FALSE
  /\ chat_pc = "closed" /\ events = <<>> /\ upstream = <<>> /\ consumed = <<>>
  /\ table = {} /\ incoming = NoFields /\ importedRaw = {} /\ last = NoImport
  /\ drvCount = 0 /\ page = 0 /\ collectedJobs = {} /\ drvEvents = <<>>
  /\ sessions = <<>> /\ drvPc = "ended"
  /\ runtime = "node" /\ wsPhase = "live"
  /\ disconnected = FALSE /\ delivered = 0
  /\ httpStatus = 200 /\ errorText = ""
  /\ xaiModelCache = EmptyCache /\ syncCall = NoSyncCall
  /\ syncResult = NoSyncResult /\ syncLast = NoSync
  /\ picking = NoPicking /\ picked = NoPicks
  /\ requestedModel = "" /\ requestedType = ""
  /\ resolved = NoResolved /\ found = NoneFound
  /\ video = NoVideo /\ vidArgs = NoVideoArgs
  /\ vidCalls = <<>> /\ vidEvents = <<>>

CancelNext ==
  \/ Disconnect
  \/ CPickToken
  \/ CNoToken
  \/ CLoopExit
  \/ CGenItem
  \/ CGenComplete
  \/ CGenDone
  \/ \E f \in ChatFailures \cup ImageFailures \cup VideoFailures : CGenError(f)
  \/ \E f \in ChatThrown : CGenThrow(f)

SpecCancel == CancelInit /\ [][CancelNext]_vars

---------------------------------------------------------------------------
(* The credential store on its own: calls into repo/tokens.                *)

Uses(tk) == LET RECURSIVE Sum(_)
                Sum(S) == IF S = {} THEN 0
                          ELSE LET t == CHOOSE x \in S : TRUE
                               IN tk[t].use_count + Sum(S \ {t})
            IN Sum(DOMAIN tk)

\* getRandomToken(db, excludeIds)
getRandomToken(excludeIds) ==
  /\ Uses(tokens) < MaxUse
  /\ LET rows == ActiveRows(tokens, excludeIds) IN
       IF rows = {}
       THEN /\ call' = Call("getRandomToken", excludeIds, 0)
            /\ UNCHANGED tokens
       ELSE \E t \in rows :
              /\ tokens' = TouchToken(tokens, t, now)
              /\ call' = Call("getRandomToken", excludeIds, t)
  /\ UNCHANGED <<now, retryVars, sessionVars, thinkVars, laterVars>>

\* addToken(db, sso, ...): the id is a function of the sso; an existing row
\* keeps its counters and status, a new row is inserted active and unused.
addToken(t) ==
  /\ tokens' = IF getToken(tokens, t) # 0 THEN tokens
               ELSE [tokens EXCEPT ![t] = Row("active")]
  /\ call' = Call("addToken", EmptyBag, t)
  /\ UNCHANGED <<now, retryVars, sessionVars, thinkVars, laterVars>>

\* deleteToken(db, tokenId)
deleteToken(t) ==
  /\ IF getToken(tokens, t) = 0
     THEN /\ call' = Call("deleteToken", EmptyBag, 0)
          /\ UNCHANGED tokens
     ELSE /\ tokens' = [tokens EXCEPT ![t] = Row("absent")]
          /\ call' = Call("deleteToken", EmptyBag, t)
  /\ UNCHANGED <<now, retryVars, sessionVars, thinkVars, laterVars>>

\* clearAllTokens(db)
clearAllTokens ==
  /\ tokens' = [t \in TokenIds |-> Row("absent")]
  /\ call' = Call("clearAllTokens", EmptyBag, 0)
  /\ UNCHANGED <<now, retryVars, sessionVars, thinkVars, laterVars>>

\* nowMs() moves on between calls.
Tick ==
  /\ now < MaxNow
  /\ now' = now + 1
  /\ UNCHANGED <<tokens, call, retryVars, sessionVars, thinkVars, laterVars>>

\* The credentials the calls under SpecPool name: one more than can be excluded.
PoolIds == 1..(MaxExclude + 1)

PoolInit ==
  /\ \E k \in 0..(MaxExclude + 1) : tokens = StoreWith(k)
  /\ now = 1
  /\ call = NoCall
  /\ route = "chat" /\ token_id = 0 /\ count = 0 /\ pc = "closed"
  /\ excludedTokenIds = EmptyBag /\ retryCount = 0 /\ token = 0
  /\ completed = FALSE /\ collected = 0 /\ success = FALSE /\ lastError = ""
  /\ out = <<>> /\ attempts = 0 /\ emitted = 0
  /\ results = <<>> /\ receivedImages = <<>> /\ completedJobs = {}
  /\ failedJobs = {} /\ emittedJobs = {} /\ settled = TRUE
  /\ outcome = "resolved" /\ timer = FALSE
  /\ timeoutArmed = FALSE /\ readyState = "closed" /\ requestSent = FALSE
  /\ showThinking = TRUE /\ isThinking = FALSE /\ thinkingFinished = FALSE
  /\ chat_pc = "closed" /\ events = <<>> /\ upstream = <<>> /\ consumed = <<>>
  /\ table = {} /\ incoming = NoFields /\ importedRaw = {} /\ last = NoImport
  /\ drvCount = 0 /\ page = 0 /\ collectedJobs = {} /\ drvEvents = <<>>
  /\ sessions = <<>> /\ drvPc = "ended"
  /\ runtime = "node" /\ wsPhase = "live"
  /\ disconnected = FALSE /\ delivered = 0
  /\ httpStatus = 200 /\ errorText = ""
  /\ xaiModelCache = EmptyCache /\ syncCall = NoSyncCall
  /\ syncResult = NoSyncResult /\ syncLast = NoSync
  /\ picking = NoPicking /\ picked = NoPicks
  /\ requestedModel = "" /\ requestedType = ""
  /\ resolved = NoResolved /\ found = NoneFound
  /\ video = NoVideo /\ vidArgs = NoVideoArgs
  /\ vidCalls = <<>> /\ vidEvents = <<>>

PoolNext ==
  \/ \E S \in SUBSET (1..MaxExclude) : getRandomToken(SetToBag(S))
  \/ \E t \in PoolIds : addToken(t)
  \/ \E t \in PoolIds : deleteToken(t)
  \/ clearAllTokens
  \/ Tick

SpecPool == PoolInit /\ [][PoolNext]_vars

---------------------------------------------------------------------------
(* One image-collection session: connectAndReceive and its handlers.       *)

JobIds == 0..NumJobs

\* Inbound WebSocket messages after JSON.parse, with the fields the handler
\* reads; blobLen stands for blob.length, jpg for url.endsWith(".jpg").
WsMessage(type, job_id, blobLen, jpg, moderated, status, pct, message) ==
  [type |-> type, job_id |-> job_id, blobLen |-> blobLen, jpg |-> jpg,
   moderated |-> moderated, current_status |-> status,
   percentage_complete |-> pct, message |-> message]

BlobLengths == {FullBlobLength, FullBlobLength + 1}

WsMessages ==
  {WsMessage("image", j, b, u, m, "", 0, "") :
     j \in JobIds, b \in BlobLengths, u \in BOOLEAN, m \in BOOLEAN}
  \cup {WsMessage("json", j, 0, FALSE, FALSE, st, pct, "") :
          j \in JobIds, st \in {"completed", "error", "running"}, pct \in {50, 100}}
  \cup {WsMessage("error", 0, 0, FALSE, FALSE, "", 0, msg) : msg \in {"", "Invalid prompt"}}

ImageResult(data) ==
  [job_id |-> data.job_id, blobLen |-> data.blobLen, jpg |-> data.jpg,
   moderated |-> data.moderated]

\* if (ws.readyState === OPEN || ws.readyState === CONNECTING) ws.close()
closeIfOpen(ws) == IF ws \in {"open", "connecting"} THEN "closing" ELSE ws

\* resolveOnce without its settled flag: every call settles again.
resolveAgain(ws) ==
  /\ settled' = TRUE /\ outcome' = "resolved"
  /\ timeoutArmed' = FALSE /\ readyState' = closeIfOpen(ws)

\* resolveOnce(value) / rejectOnce(error): the first one to run settles,
\* clears the timeout and closes the socket; ws is the socket's readyState
\* when the call is made.
resolveOnce(ws) ==
  IF settled THEN UNCHANGED <<settled, outcome, timeoutArmed>> /\ readyState' = ws
  ELSE /\ settled' = TRUE /\ outcome' = "resolved"
       /\ timeoutArmed' = FALSE /\ readyState' = closeIfOpen(ws)

rejectOnce(ws, error) ==
  IF settled THEN UNCHANGED <<settled, outcome, timeoutArmed>> /\ readyState' = ws
  ELSE /\ settled' = TRUE /\ outcome' = error
       /\ timeoutArmed' = FALSE /\ readyState' = closeIfOpen(ws)

\* The emit test without its moderation and once-per-job guards.
ShouldEmitAnyFull(isFullImage, result, emitted_) == isFullImage

\* if (isFullImage && !result.moderated && !state.emittedJobs.has(jobId))
ShouldEmit(isFullImage, result, emitted_) ==
  isFullImage /\ ~result.moderated /\ result.job_id \notin emitted_

\* const isFullImage = blob.length > 100000 || url.endsWith(".jpg")
IsFullImage(data) == data.blobLen > FullBlobLength \/ data.jpg

\* if (jobId) { ... if (!existing || blob.length > existingBlobLen) { ...
StoresImage(data, received) ==
  /\ data.job_id # 0
  /\ \/ data.job_id \notin DOMAIN received
     \/ data.blobLen > received[data.job_id].blobLen

\* The image message passes the store test and then the emit test.
EmitsImage(data, received, emitted_) ==
  /\ StoresImage(data, received)
  /\ ShouldEmit(IsFullImage(data), ImageResult(data), emitted_)

\* handleWsPayload(payloadText, state, rejectOnce, resolveOnce)
handleWsPayload(data) ==
  /\ requestSent
  /\ readyState \in {"open", "closing"}
  /\ IF data.type = "error"
     THEN /\ rejectOnce(readyState,
                        IF data.message # "" THEN data.message ELSE "Unknown error")
          /\ UNCHANGED <<results, receivedImages, completedJobs, failedJobs,
                         emittedJobs, timer>>
     ELSE
       /\ IF data.type = "json"
          THEN /\ completedJobs' =
                    IF data.current_status = "completed"
                       /\ data.percentage_complete >= 100
                    THEN completedJobs \cup {data.job_id} ELSE completedJobs
               /\ failedJobs' =
                    IF ~(data.current_status = "completed"
                         /\ data.percentage_complete >= 100)
                       /\ data.current_status = "error"
                    THEN failedJobs \cup {data.job_id} ELSE failedJobs
               /\ UNCHANGED <<results, receivedImages, emittedJobs>>
          ELSE \* "image"
            LET jobId == data.job_id
                result == ImageResult(data)
                stored == StoresImage(data, receivedImages)
                emit == EmitsImage(data, receivedImages, emittedJobs)
            IN /\ receivedImages' =
                    IF stored
                    THEN [j \in DOMAIN receivedImages \cup {jobId} |->
                            IF j = jobId THEN result ELSE receivedImages[j]]
                    ELSE receivedImages
               /\ emittedJobs' = IF emit THEN emittedJobs \cup {jobId} ELSE emittedJobs
               /\ results' = IF emit THEN Append(results, result) ELSE results
               /\ UNCHANGED <<completedJobs, failedJobs>>
       /\ timer' = (timer \/ Cardinality(completedJobs') + Cardinality(failedJobs')
                                >= BatchSize)
       /\ UNCHANGED <<settled, outcome, timeoutArmed, readyState>>
  /\ UNCHANGED <<requestSent, storeVars, retryVars, poolVars, thinkVars, laterVars>>

\* setTimeout(() => resolveOnce(state.results), 300) fires
OnResolveTimer ==
  /\ timer
  /\ timer' = FALSE
  /\ resolveOnce(readyState)
  /\ UNCHANGED <<results, receivedImages, completedJobs, failedJobs, emittedJobs>>
  /\ UNCHANGED <<requestSent, storeVars, retryVars, poolVars, thinkVars, laterVars>>

\* the session timeout fires; settling clears it
OnTimeout ==
  /\ timeoutArmed
  /\ resolveOnce(readyState)
  /\ UNCHANGED <<results, receivedImages, completedJobs, failedJobs, emittedJobs,
                 timer>>
  /\ UNCHANGED <<requestSent, storeVars, retryVars, poolVars, thinkVars, laterVars>>

\* ws "error" event
OnError ==
  /\ ~settled
  /\ readyState \in {"connecting", "open"}
  /\ rejectOnce(readyState, "WebSocket error")
  /\ UNCHANGED <<results, receivedImages, completedJobs, failedJobs, emittedJobs,
                 timer>>
  /\ UNCHANGED <<requestSent, storeVars, retryVars, poolVars, thinkVars, laterVars>>

\* ws "open" event: the request is sent
OnOpen ==
  /\ readyState = "connecting"
  /\ readyState' = "open"
  /\ requestSent' = TRUE
  /\ UNCHANGED <<results, receivedImages, completedJobs, failedJobs, emittedJobs,
                 settled, outcome, timer, timeoutArmed>>
  /\ UNCHANGED <<storeVars, retryVars, poolVars, thinkVars, laterVars>>

\* The close handler without its rate-limit branch.
OnCloseResolves(code) ==
  /\ readyState \in {"connecting", "open", "closing"}
  /\ resolveOnce("closed")
  /\ UNCHANGED <<results, receivedImages, completedJobs, failedJobs, emittedJobs,
                 timer>>
  /\ UNCHANGED <<requestSent, storeVars, retryVars, poolVars, thinkVars, laterVars>>

\* ws "close" event with its code; the socket is closed when the handler runs
OnClose(code) ==
  /\ readyState \in {"connecting", "open", "closing"}
  /\ IF code = 1008 \/ code = 429
     THEN rejectOnce("closed", "Rate limited (429)")
     ELSE resolveOnce("closed")
  /\ UNCHANGED <<results, receivedImages, completedJobs, failedJobs, emittedJobs,
                 timer>>
  /\ UNCHANGED <<requestSent, storeVars, retryVars, poolVars, thinkVars, laterVars>>

SessionInit ==
  /\ tokens = StoreWith(1)
  /\ now = 1
  /\ call = NoCall
  /\ route = "chat" /\ token_id = 0 /\ count = 0 /\ pc = "closed"
  /\ excludedTokenIds = EmptyBag /\ retryCount = 0 /\ token = 0
  /\ completed = FALSE /\ collected = 0 /\ success = FALSE /\ lastError = ""
  /\ out = <<>> /\ attempts = 0 /\ emitted = 0
  /\ results = <<>> /\ receivedImages = <<>> /\ completedJobs = {}
  /\ failedJobs = {} /\ emittedJobs = {} /\ settled = FALSE
  /\ outcome = "pending" /\ timer = FALSE
  /\ timeoutArmed = TRUE /\ readyState = "connecting" /\ requestSent = FALSE
  /\ showThinking = TRUE /\ isThinking = FALSE /\ thinkingFinished = FALSE
  /\ chat_pc = "closed" /\ events = <<>> /\ upstream = <<>> /\ consumed = <<>>
  /\ table = {} /\ incoming = NoFields /\ importedRaw = {} /\ last = NoImport
  /\ drvCount = 0 /\ page = 0 /\ collectedJobs = {} /\ drvEvents = <<>>
  /\ sessions = <<>> /\ drvPc = "ended"
  /\ runtime = "node" /\ wsPhase = "live"
  /\ disconnected = FALSE /\ delivered = 0
  /\ httpStatus = 200 /\ errorText = ""
  /\ xaiModelCache = EmptyCache /\ syncCall = NoSyncCall
  /\ syncResult = NoSyncResult /\ syncLast = NoSync
  /\ picking = NoPicking /\ picked = NoPicks
  /\ requestedModel = "" /\ requestedType = ""
  /\ resolved = NoResolved /\ found = NoneFound
  /\ video = NoVideo /\ vidArgs = NoVideoArgs
  /\ vidCalls = <<>> /\ vidEvents = <<>>

SessionNext ==
  \/ OnOpen
  \/ \E data \in WsMessages : handleWsPayload(data)
  \/ OnResolveTimer
  \/ OnTimeout
  \/ OnError
  \/ \E code \in {1000, 1008, 429} : OnClose(code)

SpecSession == SessionInit /\ [][SessionNext]_vars

---------------------------------------------------------------------------
(* The lifetime of one connectAndReceive call: on the Worker runtime the    *)
(* upgrade request is awaited before the promise, its handlers and its      *)
(* timeout exist; on Node they are set up as soon as the socket is created. *)

\* Messages of a session in which every image is a full one.
LiveMessages ==
  {WsMessage("image", j, FullBlobLength + 1, TRUE, m, "", 0, "") :
     j \in JobIds, m \in BOOLEAN}
  \cup {WsMessage("json", j, 0, FALSE, FALSE, "completed", 100, "") : j \in JobIds}
  \cup {WsMessage("json", j, 0, FALSE, FALSE, "error", 50, "") : j \in JobIds}
  \cup {WsMessage("error", 0, 0, FALSE, FALSE, "", 0, "")}

\* The upgrade response carries a socket: ws.accept(), ws.send(request), and
\* the promise with its timeout is created.
UpgradeDone ==
  /\ wsPhase = "upgrade"
  /\ wsPhase' = "live"
  /\ timeoutArmed' = TRUE
  /\ readyState' = "open"
  /\ requestSent' = TRUE
  /\ UNCHANGED <<runtime, results, receivedImages, completedJobs, failedJobs,
                 emittedJobs, settled, outcome, timer>>
  /\ UNCHANGED <<storeVars, retryVars, poolVars, thinkVars, importVars, driverVars,
                 cancelVars, fetchVars,
                 syncVars,
                 usageVars,
                 resolveVars,
                 videoVars>>

\* The upgrade response carries no socket: the call throws.
UpgradeFails(status) ==
  /\ wsPhase = "upgrade"
  /\ wsPhase' = "failed"
  /\ settled' = TRUE
  /\ outcome' = "WebSocket upgrade failed: HTTP " \o ToString(status)
  /\ UNCHANGED <<runtime, results, receivedImages, completedJobs, failedJobs,
                 emittedJobs, timer, timeoutArmed, readyState, requestSent>>
  /\ UNCHANGED <<storeVars, retryVars, poolVars, thinkVars, importVars, driverVars,
                 cancelVars, fetchVars,
                 syncVars,
                 usageVars,
                 resolveVars,
                 videoVars>>

LiveOpen == wsPhase = "live" /\ OnOpen
LiveMessage(data) == wsPhase = "live" /\ handleWsPayload(data)
LiveResolveTimer == wsPhase = "live" /\ OnResolveTimer
LiveTimeout == wsPhase = "live" /\ OnTimeout
LiveError == wsPhase = "live" /\ OnError
LiveClose(code) == wsPhase = "live" /\ OnClose(code)

ConnectInit ==
  /\ tokens = StoreWith(1)
  /\ now = 1
  /\ call = NoCall
  /\ route = "chat" /\ token_id = 0 /\ count = 0 /\ pc = "closed"
  /\ excludedTokenIds = EmptyBag /\ retryCount = 0 /\ token = 0
  /\ completed = FALSE /\ collected = 0 /\ success = FALSE /\ lastError = ""
  /\ out = <<>> /\ attempts = 0 /\ emitted = 0
  /\ results = <<>> /\ receivedImages = <<>> /\ completedJobs = {}
  /\ failedJobs = {} /\ emittedJobs = {} /\ settled = FALSE
  /\ outcome = "pending" /\ timer = FALSE
  /\ showThinking = TRUE /\ isThinking = FALSE /\ thinkingFinished = FALSE
  /\ chat_pc = "closed" /\ events = <<>> /\ upstream = <<>> /\ consumed = <<>>
  /\ table = {} /\ incoming = NoFields /\ importedRaw = {} /\ last = NoImport
  /\ drvCount = 0 /\ page = 0 /\ collectedJobs = {} /\ drvEvents = <<>>
  /\ sessions = <<>> /\ drvPc = "ended"
  /\ runtime \in {"node", "worker"}
  /\ wsPhase = IF runtime = "worker" THEN "upgrade" ELSE "live"
  /\ timeoutArmed = (runtime = "node")
  /\ readyState = IF runtime = "worker" THEN "none" ELSE "connecting"
  /\ requestSent = FALSE
  /\ disconnected = FALSE /\ delivered = 0
  /\ httpStatus = 200 /\ errorText = ""
  /\ xaiModelCache = EmptyCache /\ syncCall = NoSyncCall
  /\ syncResult = NoSyncResult /\ syncLast = NoSync
  /\ picking = NoPicking /\ picked = NoPicks
  /\ requestedModel = "" /\ requestedType = ""
  /\ resolved = NoResolved /\ found = NoneFound
  /\ video = NoVideo /\ vidArgs = NoVideoArgs
  /\ vidCalls = <<>> /\ vidEvents = <<>>

ConnectNext ==
  \/ UpgradeDone
  \/ \E status \in {401, 429} : UpgradeFails(status)
  \/ LiveOpen
  \/ \E data \in LiveMessages : LiveMessage(data)
  \/ LiveResolveTimer
  \/ LiveTimeout
  \/ LiveError
  \/ \E code \in {1000, 1008, 429} : LiveClose(code)

SpecConnect == ConnectInit /\ [][ConnectNext]_vars

\* Timers that are set fire; what the upstream sends, and whether it answers
\* at all, is up to the upstream.
SpecConnectFair ==
  SpecConnect /\ WF_vars(LiveTimeout) /\ WF_vars(LiveResolveTimer)

---------------------------------------------------------------------------
(* One text response: the read loop of streamTextChat.                     *)

\* A line of the upstream NDJSON body, with the fields the loop reads:
\* hasResp = data?.result?.response is there; token "" = no token or an
\* empty one.
Line(hasResp, modelResponse, tok, thinking) ==
  [hasResp |-> hasResp, modelResponse |-> modelResponse, token |-> tok,
   isThinking |-> thinking]

Lines ==
  { Line(FALSE, FALSE, "", FALSE),      \* blank, not JSON, or without a response
    Line(TRUE, TRUE, "", FALSE),        \* modelResponse
    Line(TRUE, FALSE, "", TRUE),        \* empty token
    Line(TRUE, FALSE, "a", TRUE),       \* thinking token
    Line(TRUE, FALSE, "b", FALSE) }     \* answer token

RECURSIVE SeqsUpTo(_, _)
SeqsUpTo(S, n) ==
  IF n = 0 THEN {<<>>}
  ELSE LET shorter == SeqsUpTo(S, n - 1)
       IN shorter \cup {Append(q, x) : q \in {r \in shorter : Len(r) = n - 1}, x \in S}

\* yield { type: "token", content, responseId }; `thinking` records the
\* isThinking flag of the upstream token the event carries (FALSE for a bare
\* marker).
TokenEvent(content, thinking) ==
  [type |-> "token", content |-> content, thinking |-> thinking]
DoneEvent == [type |-> "done", content |-> "", thinking |-> FALSE]

OpenMarker == "<think>\n"
CloseMarker == "\n</think>\n"

\* The loop's local state, and whether the line left the for loop (break).
ReadState(th, fin, evs, brk) ==
  [isThinking |-> th, thinkingFinished |-> fin, events |-> evs, brk |-> brk]

\* A loop body that forwards every token as it came, whatever showThinking is.
handleLineForwardAll(st, line, show) ==
  IF ~line.hasResp THEN st
  ELSE IF line.modelResponse THEN [st EXCEPT !.brk = TRUE]
  ELSE IF line.token = "" THEN st
  ELSE ReadState(line.isThinking, st.thinkingFinished,
                 Append(st.events, TokenEvent(line.token, line.isThinking)),
                 FALSE)

\* The body of `for (const line of lines)` for one line.
handleLine(st, line, show) ==
  IF ~line.hasResp THEN st
  ELSE IF line.modelResponse
  THEN IF st.isThinking /\ show
       THEN ReadState(FALSE, st.thinkingFinished,
                      Append(st.events, TokenEvent(CloseMarker, FALSE)), TRUE)
       ELSE [st EXCEPT !.brk = TRUE]
  ELSE IF line.token = "" THEN st
  ELSE LET currentIsThinking == line.isThinking IN
    IF st.thinkingFinished /\ currentIsThinking THEN st
    ELSE IF ~st.isThinking /\ currentIsThinking
    THEN IF show
         THEN ReadState(currentIsThinking, st.thinkingFinished,
                        Append(st.events,
                               TokenEvent(OpenMarker \o line.token, TRUE)), FALSE)
         ELSE st
    ELSE IF st.isThinking /\ ~currentIsThinking
    THEN ReadState(currentIsThinking, TRUE,
                   Append(st.events,
                          TokenEvent(IF show THEN CloseMarker \o line.token
                                     ELSE line.token, FALSE)), FALSE)
    ELSE IF currentIsThinking /\ ~show THEN st
    ELSE ReadState(currentIsThinking, st.thinkingFinished,
                   Append(st.events, TokenEvent(line.token, currentIsThinking)),
                   FALSE)

RECURSIVE forLines(_, _, _)
forLines(lines, st, show) ==
  IF lines = <<>> THEN st
  ELSE LET r == handleLine(st, Head(lines), show) IN
         IF r.brk THEN r ELSE forLines(Tail(lines), r, show)

\* The end of the stream without the closing marker.
FinalEventsBare(th, show) == <<DoneEvent>>

\* if (isThinking && showThinking) yield close; yield done
FinalEvents(th, show) ==
  IF th /\ show THEN <<TokenEvent(CloseMarker, FALSE), DoneEvent>>
  ELSE <<DoneEvent>>

\* reader.read() returns a chunk that completes the next k lines.
Read(k) ==
  /\ chat_pc = "reading"
  /\ k \in 1..Len(upstream)
  /\ LET r == forLines(SubSeq(upstream, 1, k),
                       ReadState(isThinking, thinkingFinished, events, FALSE),
                       showThinking) IN
       /\ isThinking' = r.isThinking
       /\ thinkingFinished' = r.thinkingFinished
       /\ events' = r.events
  /\ upstream' = SubSeq(upstream, k + 1, Len(upstream))
  /\ consumed' = consumed \o SubSeq(upstream, 1, k)
  /\ UNCHANGED <<showThinking, chat_pc>>
  /\ UNCHANGED <<storeVars, retryVars, poolVars, sessionVars, laterVars>>

\* reader.read() returns done: the code after the loop runs.
ReadDone ==
  /\ chat_pc = "reading"
  /\ upstream = <<>>
  /\ events' = events \o FinalEvents(isThinking, showThinking)
  /\ chat_pc' = "done"
  /\ UNCHANGED <<showThinking, isThinking, thinkingFinished, upstream, consumed>>
  /\ UNCHANGED <<storeVars, retryVars, poolVars, sessionVars, laterVars>>

\* reader.read() rejects: the generator throws, nothing more is yielded.
ReadFails ==
  /\ chat_pc = "reading"
  /\ chat_pc' = "thrown"
  /\ UNCHANGED <<showThinking, isThinking, thinkingFinished, events, upstream,
                 consumed>>
  /\ UNCHANGED <<storeVars, retryVars, poolVars, sessionVars, laterVars>>

ThinkInit ==
  /\ tokens = StoreWith(1)
  /\ now = 1
  /\ call = NoCall
  /\ route = "chat" /\ token_id = 0 /\ count = 0 /\ pc = "closed"
  /\ excludedTokenIds = EmptyBag /\ retryCount = 0 /\ token = 0
  /\ completed = FALSE /\ collected = 0 /\ success = FALSE /\ lastError = ""
  /\ out = <<>> /\ attempts = 0 /\ emitted = 0
  /\ results = <<>> /\ receivedImages = <<>> /\ completedJobs = {}
  /\ failedJobs = {} /\ emittedJobs = {} /\ settled = TRUE
  /\ outcome = "resolved" /\ timer = FALSE
  /\ timeoutArmed = FALSE /\ readyState = "closed" /\ requestSent = FALSE
  /\ showThinking \in BOOLEAN
  /\ isThinking = FALSE
  /\ thinkingFinished = FALSE
  /\ chat_pc = "reading"
  /\ events = <<>>
  /\ upstream \in SeqsUpTo(Lines, MaxLines)
  /\ consumed = <<>>
  /\ table = {} /\ incoming = NoFields /\ importedRaw = {} /\ last = NoImport
  /\ drvCount = 0 /\ page = 0 /\ collectedJobs = {} /\ drvEvents = <<>>
  /\ sessions = <<>> /\ drvPc = "ended"
  /\ runtime = "node" /\ wsPhase = "live"
  /\ disconnected = FALSE /\ delivered = 0
  /\ httpStatus = 200 /\ errorText = ""
  /\ xaiModelCache = EmptyCache /\ syncCall = NoSyncCall
  /\ syncResult = NoSyncResult /\ syncLast = NoSync
  /\ picking = NoPicking /\ picked = NoPicks
  /\ requestedModel = "" /\ requestedType = ""
  /\ resolved = NoResolved /\ found = NoneFound
  /\ video = NoVideo /\ vidArgs = NoVideoArgs
  /\ vidCalls = <<>> /\ vidEvents = <<>>

ThinkNext ==
  \/ \E k \in 1..MaxLines : Read(k)
  \/ ReadDone
  \/ ReadFails

SpecThink == ThinkInit /\ [][ThinkNext]_vars

---------------------------------------------------------------------------
(* Credential import: addToken and addTokensBulk on the full rows.         *)

MaxBulk == 2        \* items of one addTokensBulk call

startsWith(s, p) == Len(s) >= Len(p) /\ SubSeq(s, 1, Len(p)) = p
slice(s, n) == SubSeq(s, n + 1, Len(s))

RECURSIVE trim(_)
trim(s) ==
  IF Len(s) = 0 THEN s
  ELSE IF SubSeq(s, 1, 1) = " " THEN trim(SubSeq(s, 2, Len(s)))
  ELSE IF SubSeq(s, Len(s), Len(s)) = " " THEN trim(SubSeq(s, 1, Len(s) - 1))
  ELSE s

\* A normalisation that leaves the secret as it was given.
cleanSsoAsGiven(sso) == sso

\* sso.startsWith("sso=") ? sso.slice(4) : sso.trim()
cleanSso(sso) == IF startsWith(sso, "sso=") THEN slice(sso, 4) ELSE trim(sso)

\* md5(sso): a content hash, taken to be free of collisions.
generateTokenId(sso) == <<"md5", sso>>

\* `${cleanedSso.slice(0, 8)}...`
defaultName(cleanedSso) ==
  SubSeq(cleanedSso, 1, IF Len(cleanedSso) < 8 THEN Len(cleanedSso) ELSE 8) \o "..."

TokenRow(id, sso, f, added_at, last_used, use_count, status, nsfw_enabled) ==
  [id |-> id, sso |-> sso, sso_rw |-> f.sso_rw, user_id |-> f.user_id,
   cf_clearance |-> f.cf_clearance, name |-> f.name, added_at |-> added_at,
   last_used |-> last_used, use_count |-> use_count, status |-> status,
   nsfw_enabled |-> nsfw_enabled]

\* The secrets as the administrator may give them: two spellings of "a"
\* besides the clean one, "b", and the empty secret.
RawSecrets == {"a", "sso=a", " a ", "b", ""}

\* The secrets of the items of a bulk import.
BulkSecrets == {"sso=a", " a ", "b", ""}

\* What an import may carry, field by field: nothing or a new value.
IncomingFields ==
  {Fields(a, b, c, d) : a \in {"", "rw1"}, b \in {"", "u1"},
                        c \in {"", "cf1"}, d \in {"", "n1"}}

\* Rows an earlier import and later use can have left for the secret "a":
\* imported at time 0, picked once, then disabled and marked NSFW.
StoredRows ==
  {TokenRow(generateTokenId("a"), "a", Fields(a, b, c, d), 0, 1, 1, "disabled", 1) :
     a \in {"", "rw0"}, b \in {"", "u0"}, c \in {"", "cf0"},
     d \in {"n0", defaultName("a")}}

\* UPDATE tokens SET <the non-empty arguments> WHERE id = ?
UpdateRow(r, f) ==
  [r EXCEPT !.sso_rw = IF f.sso_rw # "" THEN f.sso_rw ELSE @,
            !.user_id = IF f.user_id # "" THEN f.user_id ELSE @,
            !.cf_clearance = IF f.cf_clearance # "" THEN f.cf_clearance ELSE @,
            !.name = IF f.name # "" THEN f.name ELSE @]

\* INSERT INTO tokens (...) VALUES (?, ?, ?, ?, ?, ?, ?, 0, 'active', 0)
InsertRow(id, cleanedSso, f, name, n) ==
  TokenRow(id, cleanedSso, [f EXCEPT !.name = name], n, 0, 0, "active", 0)

\* addToken: look the id up, update the row if there is one, insert otherwise.
AddTokenRows(rows, sso, f, n) ==
  LET cleanedSso == cleanSso(sso)
      id == generateTokenId(cleanedSso)
  IN IF \E r \in rows : r.id = id
     THEN {IF r.id = id THEN UpdateRow(r, f) ELSE r : r \in rows}
     ELSE rows \cup {InsertRow(id, cleanedSso, f,
                                IF f.name # "" THEN f.name
                                ELSE defaultName(cleanedSso), n)}

\* One statement of addTokensBulk: INSERT ... ON CONFLICT(id) DO UPDATE SET
\* each field to excluded.<field> unless that is '', with the name argument
\* already replaced by the default when the item has none.
BulkStatement(rows, sso, f, n) ==
  LET cleanedSso == cleanSso(sso)
      id == generateTokenId(cleanedSso)
      name == IF f.name # "" THEN f.name ELSE defaultName(cleanedSso)
      excluded == [f EXCEPT !.name = name]
  IN IF cleanedSso = "" THEN rows
     ELSE IF \E r \in rows : r.id = id
     THEN {IF r.id = id THEN UpdateRow(r, excluded) ELSE r : r \in rows}
     ELSE rows \cup {InsertRow(id, cleanedSso, f, name, n)}

\* The statements of the batches, run in order.
RECURSIVE BulkRows(_, _, _, _)
BulkRows(rows, items, f, n) ==
  IF items = <<>> THEN rows
  ELSE BulkRows(BulkStatement(rows, Head(items), f, n), Tail(items), f, n)

IdsOf(rows) == {r.id : r \in rows}
ItemIds(items) ==
  {generateTokenId(cleanSso(items[i])) : i \in {j \in DOMAIN items : cleanSso(items[j]) # ""}}

addTokenFull(sso) ==
  /\ table' = AddTokenRows(table, sso, incoming, now)
  /\ importedRaw' = importedRaw \cup {sso}
  /\ last' = Import("addToken", {generateTokenId(cleanSso(sso))},
                    {generateTokenId(cleanSso(sso))} \cap IdsOf(table))
  /\ UNCHANGED incoming
  /\ UNCHANGED <<storeVars, retryVars, poolVars, sessionVars, thinkVars, driverVars,
                 connectVars, cancelVars, fetchVars,
                 syncVars,
                 usageVars,
                 resolveVars,
                 videoVars>>

addTokensBulk(items) ==
  /\ table' = BulkRows(table, items, incoming, now)
  /\ importedRaw' = importedRaw \cup {items[i] : i \in {j \in DOMAIN items : cleanSso(items[j]) # ""}}
  /\ last' = Import("addTokensBulk", ItemIds(items), ItemIds(items) \cap IdsOf(table))
  /\ UNCHANGED incoming
  /\ UNCHANGED <<storeVars, retryVars, poolVars, sessionVars, thinkVars, driverVars,
                 connectVars, cancelVars, fetchVars,
                 syncVars,
                 usageVars,
                 resolveVars,
                 videoVars>>

\* deleteToken on the full rows: DELETE FROM tokens WHERE id = ?
deleteTokenRow(id) ==
  /\ table' = {r \in table : r.id # id}
  /\ importedRaw' = {x \in importedRaw : generateTokenId(cleanSso(x)) # id}
  /\ last' = Import("deleteToken", {id}, {id} \cap IdsOf(table))
  /\ UNCHANGED incoming
  /\ UNCHANGED <<storeVars, retryVars, poolVars, sessionVars, thinkVars, driverVars,
                 connectVars, cancelVars, fetchVars,
                 syncVars,
                 usageVars,
                 resolveVars,
                 videoVars>>

ImportInit ==
  /\ tokens = StoreWith(1)
  /\ now = 2
  /\ call = NoCall
  /\ route = "chat" /\ token_id = 0 /\ count = 0 /\ pc = "closed"
  /\ excludedTokenIds = EmptyBag /\ retryCount = 0 /\ token = 0
  /\ completed = FALSE /\ collected = 0 /\ success = FALSE /\ lastError = ""
  /\ out = <<>> /\ attempts = 0 /\ emitted = 0
  /\ results = <<>> /\ receivedImages = <<>> /\ completedJobs = {}
  /\ failedJobs = {} /\ emittedJobs = {} /\ settled = TRUE
  /\ outcome = "resolved" /\ timer = FALSE
  /\ timeoutArmed = FALSE /\ readyState = "closed" /\ requestSent = FALSE
  /\ showThinking = FALSE /\ isThinking = FALSE /\ thinkingFinished = FALSE
  /\ chat_pc = "closed" /\ events = <<>> /\ upstream = <<>> /\ consumed = <<>>
  /\ \E rows \in {{}} \cup {{r} : r \in StoredRows} :
       /\ table = rows
       /\ importedRaw = {r.sso : r \in rows}
  /\ incoming \in IncomingFields
  /\ last = NoImport
  /\ drvCount = 0 /\ page = 0 /\ collectedJobs = {} /\ drvEvents = <<>>
  /\ sessions = <<>> /\ drvPc = "ended"
  /\ runtime = "node" /\ wsPhase = "live"
  /\ disconnected = FALSE /\ delivered = 0
  /\ httpStatus = 200 /\ errorText = ""
  /\ xaiModelCache = EmptyCache /\ syncCall = NoSyncCall
  /\ syncResult = NoSyncResult /\ syncLast = NoSync
  /\ picking = NoPicking /\ picked = NoPicks
  /\ requestedModel = "" /\ requestedType = ""
  /\ resolved = NoResolved /\ found = NoneFound
  /\ video = NoVideo /\ vidArgs = NoVideoArgs
  /\ vidCalls = <<>> /\ vidEvents = <<>>

ImportNext ==
  \/ \E sso \in RawSecrets : addTokenFull(sso)
  \/ \E items \in SeqsUpTo(BulkSecrets, MaxBulk) \ {<<>>} : addTokensBulk(items)
  \/ \E sso \in RawSecrets \ {""} : deleteTokenRow(generateTokenId(sso))

SpecImport == ImportInit /\ [][ImportNext]_vars

---------------------------------------------------------------------------
(* One run of the image driver: the page loop of generateImages.           *)

MaxDriverCount == 10   \* largest `count` a driver run is asked for

\* The updates the driver yields.
StreamUpdate(type, job_id, completed_count, message) ==
  [type |-> type, job_id |-> job_id, completed_count |-> completed_count,
   message |-> message]

\* An image of a session's result, with the fields the driver reads.
DriverImage(job_id, moderated, url) ==
  [job_id |-> job_id, moderated |-> moderated, url |-> url]

\* What a rejected session's error says.
SessionRejections ==
  {"Rate limited (429)", "WebSocket upgrade failed: HTTP 429",
   "WebSocket upgrade failed: HTTP 401", "WebSocket error", "Unknown error"}

\* Images a session may return besides new ones: one of a job collected before,
\* a moderated one, one without a URL.
JunkKinds == {"dup", "moderated", "nourl"}

RECURSIVE FreshImages(_, _)
FreshImages(from, n) ==
  IF n = 0 THEN <<>>
  ELSE <<DriverImage(from, FALSE, "u")>> \o FreshImages(from + 1, n - 1)

\* A session result: the junk first, then `fresh` images of jobs not seen so
\* far.  Job ids are numbered in the order the driver meets them; 0 is the
\* job of a moderated or URL-less image.
SessionImages(seen, fresh, junk) ==
  (IF "dup" \in junk /\ seen # {}
   THEN <<DriverImage(CHOOSE j \in seen : TRUE, FALSE, "u")>> ELSE <<>>)
  \o (IF "moderated" \in junk THEN <<DriverImage(0, TRUE, "u")>> ELSE <<>>)
  \o (IF "nourl" \in junk THEN <<DriverImage(0, FALSE, "")>> ELSE <<>>)
  \o FreshImages(Cardinality(seen) + 1, fresh)

\* Math.ceil(count / 6)
CeilDiv6(n) == (n + 5) \div 6

\* A page budget without the two extra pages.
maxPagesNoSlack(cnt) == CeilDiv6(cnt)

\* const maxPages = Math.ceil(count / 6) + 2
maxPages(cnt) == CeilDiv6(cnt) + 2

\* yield { type: "image", job_id: img.job_id, url: img.url, ...,
\*         moderated: img.moderated }
ImageUpdate(img) ==
  [type |-> "image", job_id |-> img.job_id, completed_count |-> 0, message |-> "",
   url |-> img.url, moderated |-> img.moderated]

\* The per-image loop without its two `continue` tests.
RECURSIVE forImagesUnfiltered(_, _, _, _)
forImagesUnfiltered(images, seen, evs, cnt) ==
  IF images = <<>> THEN [collected |-> seen, events |-> evs]
  ELSE LET img == Head(images)
           c2 == seen \cup {img.job_id}
           e2 == evs \o <<ImageUpdate(img),
                           StreamUpdate("progress", img.job_id, Cardinality(c2), "")>>
       IN IF Cardinality(c2) >= cnt
          THEN [collected |-> c2, events |-> e2]
          ELSE forImagesUnfiltered(Tail(images), c2, e2, cnt)

\* for (const img of images) { ... }: the loop's state is the collected set
\* and the updates yielded.
RECURSIVE forImages(_, _, _, _)
forImages(images, seen, evs, cnt) ==
  IF images = <<>> THEN [collected |-> seen, events |-> evs]
  ELSE LET img == Head(images) IN
    IF img.moderated \/ img.url = "" THEN forImages(Tail(images), seen, evs, cnt)
    ELSE IF img.job_id \in seen THEN forImages(Tail(images), seen, evs, cnt)
    ELSE LET c2 == seen \cup {img.job_id}
             e2 == evs \o <<ImageUpdate(img),
                             StreamUpdate("progress", img.job_id, Cardinality(c2), "")>>
         IN IF Cardinality(c2) >= cnt
            THEN [collected |-> c2, events |-> e2]
            ELSE forImages(Tail(images), c2, e2, cnt)

SessionEntry(isScroll, fresh, rejected) ==
  [isScroll |-> isScroll, fresh |-> fresh, rejected |-> rejected]

\* The loop head finds the loop over: yield { type: "done" }.
DriverExit ==
  /\ drvPc = "loop"
  /\ page >= maxPages(drvCount) \/ Cardinality(collectedJobs) >= drvCount
  /\ drvEvents' = Append(drvEvents, StreamUpdate("done", 0, 0, ""))
  /\ drvPc' = "ended"
  /\ UNCHANGED <<drvCount, page, collectedJobs, sessions>>
  /\ UNCHANGED <<storeVars, retryVars, poolVars, sessionVars, thinkVars, importVars,
                 connectVars, cancelVars, fetchVars,
                 syncVars,
                 usageVars,
                 resolveVars,
                 videoVars>>

\* One page: connectAndReceive resolves with images, the driver yields what
\* is new, page++.
DriverPage(fresh, junk) ==
  /\ drvPc = "loop"
  /\ page < maxPages(drvCount)
  /\ Cardinality(collectedJobs) < drvCount
  /\ LET r == forImages(SessionImages(collectedJobs, fresh, junk), collectedJobs,
                        drvEvents, drvCount) IN
       /\ collectedJobs' = r.collected
       /\ drvEvents' = r.events
  /\ sessions' = Append(sessions, SessionEntry(page > 0, fresh, FALSE))
  /\ page' = page + 1
  /\ UNCHANGED <<drvCount, drvPc>>
  /\ UNCHANGED <<storeVars, retryVars, poolVars, sessionVars, thinkVars, importVars,
                 connectVars, cancelVars, fetchVars,
                 syncVars,
                 usageVars,
                 resolveVars,
                 videoVars>>

\* The catch block without its rate-limit test: the message goes out as is.
DriverPageRejectsAsGiven(message) ==
  /\ drvPc = "loop"
  /\ page < maxPages(drvCount)
  /\ Cardinality(collectedJobs) < drvCount
  /\ drvEvents' = Append(drvEvents, StreamUpdate("error", 0, 0, message))
  /\ sessions' = Append(sessions, SessionEntry(page > 0, 0, TRUE))
  /\ drvPc' = "ended"
  /\ UNCHANGED <<drvCount, page, collectedJobs>>
  /\ UNCHANGED <<storeVars, retryVars, poolVars, sessionVars, thinkVars, importVars,
                 connectVars, cancelVars, fetchVars,
                 syncVars,
                 usageVars,
                 resolveVars,
                 videoVars>>

\* One page: connectAndReceive rejects, the driver yields an error and returns.
DriverPageRejects(message) ==
  /\ drvPc = "loop"
  /\ page < maxPages(drvCount)
  /\ Cardinality(collectedJobs) < drvCount
  /\ drvEvents' = Append(drvEvents,
        StreamUpdate("error", 0, 0,
                     IF includes(message, "429") \/ includes(message, "Rate limited")
                     THEN "Rate limited (429)" ELSE message))
  /\ sessions' = Append(sessions, SessionEntry(page > 0, 0, TRUE))
  /\ drvPc' = "ended"
  /\ UNCHANGED <<drvCount, page, collectedJobs>>
  /\ UNCHANGED <<storeVars, retryVars, poolVars, sessionVars, thinkVars, importVars,
                 connectVars, cancelVars, fetchVars,
                 syncVars,
                 usageVars,
                 resolveVars,
                 videoVars>>

DriverInit ==
  /\ tokens = StoreWith(1)
  /\ now = 1
  /\ call = NoCall
  /\ route = "chat" /\ token_id = 0 /\ count = 0 /\ pc = "closed"
  /\ excludedTokenIds = EmptyBag /\ retryCount = 0 /\ token = 0
  /\ completed = FALSE /\ collected = 0 /\ success = FALSE /\ lastError = ""
  /\ out = <<>> /\ attempts = 0 /\ emitted = 0
  /\ results = <<>> /\ receivedImages = <<>> /\ completedJobs = {}
  /\ failedJobs = {} /\ emittedJobs = {} /\ settled = TRUE
  /\ outcome = "resolved" /\ timer = FALSE
  /\ timeoutArmed = FALSE /\ readyState = "closed" /\ requestSent = FALSE
  /\ showThinking = FALSE /\ isThinking = FALSE /\ thinkingFinished = FALSE
  /\ chat_pc = "closed" /\ events = <<>> /\ upstream = <<>> /\ consumed = <<>>
  /\ table = {} /\ incoming = NoFields /\ importedRaw = {} /\ last = NoImport
  /\ drvCount \in 0..MaxDriverCount
  /\ page = 0
  /\ collectedJobs = {}
  /\ drvEvents = <<StreamUpdate("progress", 0, 0, "")>>
  /\ sessions = <<>>
  /\ drvPc = "loop"
  /\ runtime = "node" /\ wsPhase = "live"
  /\ disconnected = FALSE /\ delivered = 0
  /\ httpStatus = 200 /\ errorText = ""
  /\ xaiModelCache = EmptyCache /\ syncCall = NoSyncCall
  /\ syncResult = NoSyncResult /\ syncLast = NoSync
  /\ picking = NoPicking /\ picked = NoPicks
  /\ requestedModel = "" /\ requestedType = ""
  /\ resolved = NoResolved /\ found = NoneFound
  /\ video = NoVideo /\ vidArgs = NoVideoArgs
  /\ vidCalls = <<>> /\ vidEvents = <<>>

DriverNext ==
  \/ DriverExit
  \/ \E fresh \in 0..(BatchSize + 1), junk \in SUBSET JunkKinds : DriverPage(fresh, junk)
  \/ \E message \in SessionRejections : DriverPageRejects(message)

SpecDriver == DriverInit /\ [][DriverNext]_vars

---------------------------------------------------------------------------
(* The upstream answer to streamTextChat's request: fetch, then the test    *)
(* of response.ok and the mapping of a failure to an `error` event.         *)

Statuses == {200, 204, 400, 401, 403, 404, 429, 500, 502, 503}

Bodies ==
  {"", "Forbidden", "Just a moment...", "JUST A MOMENT", "<!DOCTYPE html><html>",
   "Attention Required! | Cloudflare", "cloudflare", "error code: 1020",
   "Too Many Requests", "attention", "<!doctype"}

ErrorEvent(message) == [type |-> "error", content |-> message, thinking |-> FALSE]

\* The challenge test on the body as it came, without lowering it.
isChallengeBodyAsGiven(text) ==
  \/ includes(text, "cloudflare")
  \/ includes(text, "attention required")
  \/ includes(text, "just a moment")
  \/ includes(text, "<!doctype html")

\* const lowered = errorText.toLowerCase(); lowered.includes(...) || ...
isChallengeBody(text) ==
  LET lowered == toLowerCase(text) IN
    \/ includes(lowered, "cloudflare")
    \/ includes(lowered, "attention required")
    \/ includes(lowered, "just a moment")
    \/ includes(lowered, "<!doctype html")

\* response.ok
ok(st) == st >= 200 /\ st <= 299

\* The message of the error event for a response that is not ok.
HttpErrorMessage(st, text) ==
  IF st = 403 /\ isChallengeBody(text) THEN "Upstream 403 (Cloudflare challenge)."
  ELSE IF st = 403 THEN "Upstream 403 forbidden."
  ELSE "HTTP " \o ToString(st) \o ": " \o SubSeq(text, 1, IF Len(text) < 500 THEN Len(text) ELSE 500)

\* fetch rejects: yield the network error and return.
FetchFails ==
  /\ chat_pc = "fetching"
  /\ httpStatus' = 0
  /\ errorText' = ""
  /\ events' = Append(events, ErrorEvent("Network error: fetch failed"))
  /\ chat_pc' = "failed"
  /\ UNCHANGED <<showThinking, isThinking, thinkingFinished, upstream, consumed>>
  /\ UNCHANGED <<storeVars, retryVars, poolVars, sessionVars, importVars,
                 driverVars, connectVars, cancelVars,
                 syncVars,
                 usageVars,
                 resolveVars,
                 videoVars>>

\* The response is not ok: yield one error event and return.
HttpError ==
  /\ chat_pc = "fetching"
  /\ ~ok(httpStatus)
  /\ events' = Append(events, ErrorEvent(HttpErrorMessage(httpStatus, errorText)))
  /\ chat_pc' = "failed"
  /\ UNCHANGED <<showThinking, isThinking, thinkingFinished, upstream, consumed>>
  /\ UNCHANGED <<storeVars, retryVars, poolVars, sessionVars, importVars,
                 driverVars, connectVars, cancelVars, fetchVars,
                 syncVars,
                 usageVars,
                 resolveVars,
                 videoVars>>

\* The response is ok: the read loop takes over.
ResponseOk ==
  /\ chat_pc = "fetching"
  /\ ok(httpStatus)
  /\ chat_pc' = "reading"
  /\ UNCHANGED <<showThinking, isThinking, thinkingFinished, events, upstream,
                 consumed>>
  /\ UNCHANGED <<storeVars, retryVars, poolVars, sessionVars, importVars,
                 driverVars, connectVars, cancelVars, fetchVars,
                 syncVars,
                 usageVars,
                 resolveVars,
                 videoVars>>

FetchInit ==
  /\ tokens = StoreWith(1)
  /\ now = 1
  /\ call = NoCall
  /\ route = "chat" /\ token_id = 0 /\ count = 0 /\ pc = "closed"
  /\ excludedTokenIds = EmptyBag /\ retryCount = 0 /\ token = 0
  /\ completed = FALSE /\ collected = 0 /\ success = FALSE /\ lastError = ""
  /\ out = <<>> /\ attempts = 0 /\ emitted = 0
  /\ results = <<>> /\ receivedImages = <<>> /\ completedJobs = {}
  /\ failedJobs = {} /\ emittedJobs = {} /\ settled = TRUE
  /\ outcome = "resolved" /\ timer = FALSE
  /\ timeoutArmed = FALSE /\ readyState = "closed" /\ requestSent = FALSE
  /\ showThinking \in BOOLEAN /\ isThinking = FALSE /\ thinkingFinished = FALSE
  /\ chat_pc = "fetching" /\ events = <<>> /\ upstream = <<>> /\ consumed = <<>>
  /\ table = {} /\ incoming = NoFields /\ importedRaw = {} /\ last = NoImport
  /\ drvCount = 0 /\ page = 0 /\ collectedJobs = {} /\ drvEvents = <<>>
  /\ sessions = <<>> /\ drvPc = "ended"
  /\ runtime = "node" /\ wsPhase = "live"
  /\ disconnected = FALSE /\ delivered = 0
  /\ httpStatus \in Statuses
  /\ errorText \in Bodies
  /\ xaiModelCache = EmptyCache /\ syncCall = NoSyncCall
  /\ syncResult = NoSyncResult /\ syncLast = NoSync
  /\ picking = NoPicking /\ picked = NoPicks
  /\ requestedModel = "" /\ requestedType = ""
  /\ resolved = NoResolved /\ found = NoneFound
  /\ video = NoVideo /\ vidArgs = NoVideoArgs
  /\ vidCalls = <<>> /\ vidEvents = <<>>

FetchNext ==
  \/ FetchFails
  \/ HttpError
  \/ ResponseOk
  \/ ReadDone

SpecFetch == FetchInit /\ [][FetchNext]_vars

---------------------------------------------------------------------------
(* The remote catalogue cache: syncXaiModels (grok/models). A call runs    *)
(* up to `await fetch` in one step and from the answer to its return in     *)
(* another; calls of concurrent requests interleave at the await.           *)

DEFAULT_XAI_TTL_MS == 300000
MaxListing == 2     \* items in a listing's data array

\* options.ttlMs as the callers give it (0 = absent), in clock ticks.
TtlInputs == {0, 1}
ApiKeys == {"", " ", "k"}

parseTtlMs(ttlMs) == IF ttlMs <= 0 THEN DEFAULT_XAI_TTL_MS ELSE ttlMs

\* String(item.id || "") of the items of a data array; "" also stands for an
\* item that is no object or has no id.
ListingItems == {"a", " a", "b", ""}

\* What response.json().catch(() => null) gives: null for a body that is no
\* JSON, an object without a data array, or a listing.
Payloads ==
  {NoPayload, [json |-> "object", data |-> <<>>]}
    \cup {[json |-> "listing", data |-> d] : d \in SeqsUpTo(ListingItems, MaxListing)}

Contains(ids, id) == \E i \in 1..Len(ids) : ids[i] = id

\* The loop of parseXaiModelIds over `data`, `ids` being the Set so far in
\* insertion order.
RECURSIVE addIds(_, _)
addIds(data, ids) ==
  IF data = <<>> THEN ids
  ELSE LET id == trim(Head(data))
       IN IF id = "" \/ Contains(ids, id) THEN addIds(Tail(data), ids)
          ELSE addIds(Tail(data), Append(ids, id))

parseXaiModelIds(payload) ==
  IF payload.json # "listing" THEN <<>>
  ELSE addIds(payload.data, <<>>)

ErrorTexts == {"", "denied"}
SyncResponses ==
  {SyncResponse("http", 200, "", p) : p \in Payloads}
    \cup {SyncResponse("http", st, text, NoPayload) : st \in {401, 500}, text \in ErrorTexts}
    \cup {SyncResponse("throw", 0, "fetch failed", NoPayload)}

\* `x.ai models sync failed: HTTP ${status}${text ? ` - ${text.slice(0, 200)}` : ""}`
SyncHttpErrorMessage(st, text) ==
  "x.ai models sync failed: HTTP " \o ToString(st)
    \o (IF text = "" THEN ""
        ELSE " - " \o SubSeq(text, 1, IF Len(text) < 200 THEN Len(text) ELSE 200))

\* The cache shortcut of a call that read the clock at `at`.
CacheFresh(force, ttl, at) ==
  /\ ~force
  /\ Len(xaiModelCache.ids) > 0
  /\ xaiModelCache.updatedAt > 0
  /\ at - xaiModelCache.updatedAt < ttl

\* !apiKey: the call answers from the cache and reads no clock.
SyncNoKey(c, apiKey, force, ttlMs) ==
  /\ syncCall[c] = "idle"
  /\ trim(apiKey) = ""
  /\ syncResult' = SyncResult(FALSE, TRUE, xaiModelCache.ids,
                              xaiModelCache.updatedAt, 0, "XAI_API_KEY not configured")
  /\ syncLast' = SyncBegin(force, parseTtlMs(ttlMs), xaiModelCache, now, FALSE)
  /\ UNCHANGED <<xaiModelCache, syncCall>>
  /\ UNCHANGED <<storeVars, retryVars, poolVars, sessionVars, thinkVars, importVars,
                 driverVars, connectVars, cancelVars, fetchVars,
                 usageVars,
                 resolveVars,
                 videoVars>>

\* The cache shortcut is taken.
SyncFromCache(c, apiKey, force, ttlMs) ==
  /\ syncCall[c] = "idle"
  /\ trim(apiKey) # ""
  /\ CacheFresh(force, parseTtlMs(ttlMs), now)
  /\ syncResult' = SyncResult(TRUE, TRUE, xaiModelCache.ids, xaiModelCache.updatedAt,
                              IF xaiModelCache.lastStatus = 0 THEN 200
                              ELSE xaiModelCache.lastStatus, "")
  /\ syncLast' = SyncBegin(force, parseTtlMs(ttlMs), xaiModelCache, now, FALSE)
  /\ UNCHANGED <<xaiModelCache, syncCall>>
  /\ UNCHANGED <<storeVars, retryVars, poolVars, sessionVars, thinkVars, importVars,
                 driverVars, connectVars, cancelVars, fetchVars,
                 usageVars,
                 resolveVars,
                 videoVars>>

\* The call sends the listing request and awaits the answer.
SyncFetch(c, apiKey, force, ttlMs) ==
  /\ syncCall[c] = "idle"
  /\ trim(apiKey) # ""
  /\ ~CacheFresh(force, parseTtlMs(ttlMs), now)
  /\ syncCall' = [syncCall EXCEPT ![c] = "fetching"]
  /\ syncLast' = SyncBegin(force, parseTtlMs(ttlMs), xaiModelCache, now, TRUE)
  /\ UNCHANGED <<xaiModelCache, syncResult>>
  /\ UNCHANGED <<storeVars, retryVars, poolVars, sessionVars, thinkVars, importVars,
                 driverVars, connectVars, cancelVars, fetchVars,
                 usageVars,
                 resolveVars,
                 videoVars>>

\* !response.ok
SyncHttpError(c, response) ==
  /\ syncCall[c] = "fetching"
  /\ response.kind = "http" /\ ~ok(response.status)
  /\ LET error == SyncHttpErrorMessage(response.status, response.text)
     IN /\ xaiModelCache' = [xaiModelCache EXCEPT !.lastError = error,
                                                  !.lastStatus = response.status]
        /\ syncResult' = SyncResult(FALSE, FALSE, xaiModelCache.ids,
                                    xaiModelCache.updatedAt, response.status, error)
  /\ syncCall' = [syncCall EXCEPT ![c] = "idle"]
  /\ syncLast' = SyncDone(xaiModelCache, now, response)
  /\ UNCHANGED <<storeVars, retryVars, poolVars, sessionVars, thinkVars, importVars,
                 driverVars, connectVars, cancelVars, fetchVars,
                 usageVars,
                 resolveVars,
                 videoVars>>

\* A variant of the 2xx branch that adds the listing's ids to the cached list
\* instead of replacing it.
SyncOkMerges(c, response) ==
  /\ syncCall[c] = "fetching"
  /\ response.kind = "http" /\ ok(response.status)
  /\ LET ids == IF response.payload.json # "listing" THEN xaiModelCache.ids
                ELSE addIds(response.payload.data, xaiModelCache.ids)
     IN /\ xaiModelCache' = [ids |-> ids, updatedAt |-> now, lastError |-> "",
                             lastStatus |-> response.status]
        /\ syncResult' = SyncResult(TRUE, FALSE, ids, now, response.status, "")
  /\ syncCall' = [syncCall EXCEPT ![c] = "idle"]
  /\ syncLast' = SyncDone(xaiModelCache, now, response)
  /\ UNCHANGED <<storeVars, retryVars, poolVars, sessionVars, thinkVars, importVars,
                 driverVars, connectVars, cancelVars, fetchVars,
                 usageVars,
                 resolveVars,
                 videoVars>>

\* response.ok: whatever parseXaiModelIds makes of the body becomes the cache.
SyncOk(c, response) ==
  /\ syncCall[c] = "fetching"
  /\ response.kind = "http" /\ ok(response.status)
  /\ LET ids == parseXaiModelIds(response.payload)
     IN /\ xaiModelCache' = [ids |-> ids, updatedAt |-> now, lastError |-> "",
                             lastStatus |-> response.status]
        /\ syncResult' = SyncResult(TRUE, FALSE, ids, now, response.status, "")
  /\ syncCall' = [syncCall EXCEPT ![c] = "idle"]
  /\ syncLast' = SyncDone(xaiModelCache, now, response)
  /\ UNCHANGED <<storeVars, retryVars, poolVars, sessionVars, thinkVars, importVars,
                 driverVars, connectVars, cancelVars, fetchVars,
                 usageVars,
                 resolveVars,
                 videoVars>>

\* fetch rejected: the catch block.
SyncThrows(c, response) ==
  /\ syncCall[c] = "fetching"
  /\ response.kind = "throw"
  /\ LET error == "x.ai models sync error: " \o response.text
     IN /\ xaiModelCache' = [xaiModelCache EXCEPT !.lastError = error, !.lastStatus = 0]
        /\ syncResult' = SyncResult(FALSE, FALSE, xaiModelCache.ids,
                                    xaiModelCache.updatedAt, 0, error)
  /\ syncCall' = [syncCall EXCEPT ![c] = "idle"]
  /\ syncLast' = SyncDone(xaiModelCache, now, response)
  /\ UNCHANGED <<storeVars, retryVars, poolVars, sessionVars, thinkVars, importVars,
                 driverVars, connectVars, cancelVars, fetchVars,
                 usageVars,
                 resolveVars,
                 videoVars>>

SyncInit ==
  /\ tokens = StoreWith(1)
  /\ now = 1
  /\ call = NoCall
  /\ route = "chat" /\ token_id = 0 /\ count = 0 /\ pc = "closed"
  /\ excludedTokenIds = EmptyBag /\ retryCount = 0 /\ token = 0
  /\ completed = FALSE /\ collected = 0 /\ success = FALSE /\ lastError = ""
  /\ out = <<>> /\ attempts = 0 /\ emitted = 0
  /\ results = <<>> /\ receivedImages = <<>> /\ completedJobs = {}
  /\ failedJobs = {} /\ emittedJobs = {} /\ settled = TRUE
  /\ outcome = "resolved" /\ timer = FALSE
  /\ timeoutArmed = FALSE /\ readyState = "closed" /\ requestSent = FALSE
  /\ showThinking = FALSE /\ isThinking = FALSE /\ thinkingFinished = FALSE
  /\ chat_pc = "closed" /\ events = <<>> /\ upstream = <<>> /\ consumed = <<>>
  /\ table = {} /\ incoming = NoFields /\ importedRaw = {} /\ last = NoImport
  /\ drvCount = 0 /\ page = 0 /\ collectedJobs = {} /\ drvEvents = <<>>
  /\ sessions = <<>> /\ drvPc = "ended"
  /\ runtime = "node" /\ wsPhase = "live"
  /\ disconnected = FALSE /\ delivered = 0
  /\ httpStatus = 200 /\ errorText = ""
  /\ xaiModelCache = EmptyCache /\ syncCall = NoSyncCall
  /\ syncResult = NoSyncResult /\ syncLast = NoSync
  /\ picking = NoPicking /\ picked = NoPicks
  /\ requestedModel = "" /\ requestedType = ""
  /\ resolved = NoResolved /\ found = NoneFound
  /\ video = NoVideo /\ vidArgs = NoVideoArgs
  /\ vidCalls = <<>> /\ vidEvents = <<>>

SyncNext ==
  \/ Tick
  \/ \E c \in SyncCallers, apiKey \in ApiKeys, force \in BOOLEAN, ttlMs \in TtlInputs :
       \/ SyncNoKey(c, apiKey, force, ttlMs)
       \/ SyncFromCache(c, apiKey, force, ttlMs)
       \/ SyncFetch(c, apiKey, force, ttlMs)
  \/ \E c \in SyncCallers, response \in SyncResponses :
       \/ SyncHttpError(c, response)
       \/ SyncOk(c, response)
       \/ SyncThrows(c, response)

SpecSync == SyncInit /\ [][SyncNext]_vars

---------------------------------------------------------------------------
(* The credential store under concurrent requests: getRandomToken runs its *)
(* SELECT and its UPDATE as two awaited statements, and statements of       *)
(* other requests run between them.                                         *)

\* UPDATE ... WHERE id = ?: a row that is gone is not updated.
UpdateUsage(tk, t, n) ==
  IF getToken(tk, t) = 0 THEN tk ELSE TouchToken(tk, t, n)

\* const rows = await dbAll(...): no row, the call returns null at once.
PickNone(c, excludeIds) ==
  /\ picking[c].pc = "idle"
  /\ ActiveRows(tokens, excludeIds) = {}
  /\ call' = Call("getRandomToken", excludeIds, 0)
  /\ UNCHANGED <<tokens, now, picking, picked>>
  /\ UNCHANGED <<retryVars, sessionVars, thinkVars, importVars, driverVars,
                 connectVars, cancelVars, fetchVars, syncVars,
                 resolveVars,
                 videoVars>>

\* const rows = await dbAll(...); const token = rows[random]
PickSelect(c, excludeIds) ==
  /\ picking[c].pc = "idle"
  /\ Uses(tokens) + Cardinality({d \in Pickers : picking[d].pc = "selected"}) < MaxUse
  /\ \E t \in ActiveRows(tokens, excludeIds) :
       picking' = [picking EXCEPT ![c] = Picking("selected", excludeIds, t)]
  /\ UNCHANGED <<tokens, now, call, picked>>
  /\ UNCHANGED <<retryVars, sessionVars, thinkVars, importVars, driverVars,
                 connectVars, cancelVars, fetchVars, syncVars,
                 resolveVars,
                 videoVars>>

\* const now = nowMs(); await dbRun(UPDATE ...); return token
PickUpdate(c) ==
  /\ picking[c].pc = "selected"
  /\ LET t == picking[c].token IN
       /\ tokens' = UpdateUsage(tokens, t, now)
       /\ picked' = [picked EXCEPT ![t] = @ + 1]
       /\ call' = Call("getRandomToken", picking[c].excludeIds, t)
  /\ picking' = [picking EXCEPT ![c] = Picking("idle", EmptyBag, 0)]
  /\ UNCHANGED now
  /\ UNCHANGED <<retryVars, sessionVars, thinkVars, importVars, driverVars,
                 connectVars, cancelVars, fetchVars, syncVars,
                 resolveVars,
                 videoVars>>

\* getToken(db, tokenId)
ReadToken(t) ==
  /\ call' = Call("getToken", EmptyBag, getToken(tokens, t))
  /\ UNCHANGED <<tokens, now, picking, picked>>
  /\ UNCHANGED <<retryVars, sessionVars, thinkVars, importVars, driverVars,
                 connectVars, cancelVars, fetchVars, syncVars,
                 resolveVars,
                 videoVars>>

\* listTokens(db)
listTokens ==
  /\ call' = Call("listTokens", EmptyBag, 0)
  /\ UNCHANGED <<tokens, now, picking, picked>>
  /\ UNCHANGED <<retryVars, sessionVars, thinkVars, importVars, driverVars,
                 connectVars, cancelVars, fetchVars, syncVars,
                 resolveVars,
                 videoVars>>

\* addToken(db, sso, ...) of another request: a new row starts unused.
InsertToken(t) ==
  /\ tokens' = IF getToken(tokens, t) # 0 THEN tokens
               ELSE [tokens EXCEPT ![t] = Row("active")]
  /\ picked' = IF getToken(tokens, t) # 0 THEN picked ELSE [picked EXCEPT ![t] = 0]
  /\ call' = Call("addToken", EmptyBag, t)
  /\ UNCHANGED <<now, picking>>
  /\ UNCHANGED <<retryVars, sessionVars, thinkVars, importVars, driverVars,
                 connectVars, cancelVars, fetchVars, syncVars,
                 resolveVars,
                 videoVars>>

\* deleteToken(db, tokenId) of another request.
RemoveToken(t) ==
  /\ getToken(tokens, t) # 0
  /\ tokens' = [tokens EXCEPT ![t] = Row("absent")]
  /\ call' = Call("deleteToken", EmptyBag, t)
  /\ UNCHANGED <<now, picking, picked>>
  /\ UNCHANGED <<retryVars, sessionVars, thinkVars, importVars, driverVars,
                 connectVars, cancelVars, fetchVars, syncVars,
                 resolveVars,
                 videoVars>>

UsageInit ==
  /\ \E k \in 1..(MaxExclude + 1) : tokens = StoreWith(k)
  /\ now = 1
  /\ call = NoCall
  /\ route = "chat" /\ token_id = 0 /\ count = 0 /\ pc = "closed"
  /\ excludedTokenIds = EmptyBag /\ retryCount = 0 /\ token = 0
  /\ completed = FALSE /\ collected = 0 /\ success = FALSE /\ lastError = ""
  /\ out = <<>> /\ attempts = 0 /\ emitted = 0
  /\ results = <<>> /\ receivedImages = <<>> /\ completedJobs = {}
  /\ failedJobs = {} /\ emittedJobs = {} /\ settled = TRUE
  /\ outcome = "resolved" /\ timer = FALSE
  /\ timeoutArmed = FALSE /\ readyState = "closed" /\ requestSent = FALSE
  /\ showThinking = TRUE /\ isThinking = FALSE /\ thinkingFinished = FALSE
  /\ chat_pc = "closed" /\ events = <<>> /\ upstream = <<>> /\ consumed = <<>>
  /\ table = {} /\ incoming = NoFields /\ importedRaw = {} /\ last = NoImport
  /\ drvCount = 0 /\ page = 0 /\ collectedJobs = {} /\ drvEvents = <<>>
  /\ sessions = <<>> /\ drvPc = "ended"
  /\ runtime = "node" /\ wsPhase = "live"
  /\ disconnected = FALSE /\ delivered = 0
  /\ httpStatus = 200 /\ errorText = ""
  /\ xaiModelCache = EmptyCache /\ syncCall = NoSyncCall
  /\ syncResult = NoSyncResult /\ syncLast = NoSync
  /\ picking = NoPicking /\ picked = NoPicks
  /\ requestedModel = "" /\ requestedType = ""
  /\ resolved = NoResolved /\ found = NoneFound
  /\ video = NoVideo /\ vidArgs = NoVideoArgs
  /\ vidCalls = <<>> /\ vidEvents = <<>>

UsageNext ==
  \/ \E c \in Pickers, S \in SUBSET (1..MaxExclude) : PickNone(c, SetToBag(S))
  \/ \E c \in Pickers, S \in SUBSET (1..MaxExclude) : PickSelect(c, SetToBag(S))
  \/ \E c \in Pickers : PickUpdate(c)
  \/ \E t \in PoolIds : ReadToken(t)
  \/ listTokens
  \/ \E t \in PoolIds : InsertToken(t)
  \/ \E t \in PoolIds : RemoveToken(t)
  \/ Tick

SpecUsage == UsageInit /\ [][UsageNext]_vars

---------------------------------------------------------------------------
(* The model catalogue: resolveModelInfo and findModelCandidates over the  *)
(* builtin table and the ids of the remote cache (grok/models).            *)

MODELS ==
  << Model("grok-3", "grok-3", "MODEL_MODE_AUTO", "text"),
     Model("grok-3-fast", "grok-3", "MODEL_MODE_FAST", "text"),
     Model("grok-4", "grok-4", "MODEL_MODE_AUTO", "text"),
     Model("grok-4-mini", "grok-4-mini-thinking-tahoe",
           "MODEL_MODE_GROK_4_MINI_THINKING", "text"),
     Model("grok-4-fast", "grok-4", "MODEL_MODE_FAST", "text"),
     Model("grok-4-heavy", "grok-4", "MODEL_MODE_HEAVY", "text"),
     Model("grok-4.1", "grok-4-1-thinking-1129", "MODEL_MODE_AUTO", "text"),
     Model("grok-4.1-fast", "grok-4-1-thinking-1129", "MODEL_MODE_FAST", "text"),
     Model("grok-4.1-expert", "grok-4-1-thinking-1129", "MODEL_MODE_EXPERT", "text"),
     Model("grok-4.1-thinking", "grok-4-1-thinking-1129",
           "MODEL_MODE_GROK_4_1_THINKING", "text"),
     Model("grok-image", "grok-3", "MODEL_MODE_FAST", "image"),
     Model("grok-image-1_1", "grok-3", "MODEL_MODE_FAST", "image"),
     Model("grok-image-2_3", "grok-3", "MODEL_MODE_FAST", "image"),
     Model("grok-image-3_2", "grok-3", "MODEL_MODE_FAST", "image"),
     Model("grok-image-16_9", "grok-3", "MODEL_MODE_FAST", "image"),
     Model("grok-image-9_16", "grok-3", "MODEL_MODE_FAST", "image"),
     Model("grok-video", "grok-3", "MODEL_MODE_FAST", "video"),
     Model("grok-video-1_1", "grok-3", "MODEL_MODE_FAST", "video"),
     Model("grok-video-2_3", "grok-3", "MODEL_MODE_FAST", "video"),
     Model("grok-video-3_2", "grok-3", "MODEL_MODE_FAST", "video"),
     Model("grok-video-16_9", "grok-3", "MODEL_MODE_FAST", "video"),
     Model("grok-video-9_16", "grok-3", "MODEL_MODE_FAST", "video") >>

\* EXACT_ALIAS_MAP[normalized] ("" = undefined)
EXACT_ALIAS_MAP(n) ==
  CASE n = "grok4" -> "grok-4"
    [] n = "grok-4-latest" -> "grok-4"
    [] n = "grok4-latest" -> "grok-4"
    [] n = "grok41" -> "grok-4.1"
    [] n = "grok-41" -> "grok-4.1"
    [] n = "grok-4.1-latest" -> "grok-4.1"
    [] n = "grok-image-latest" -> "grok-image"
    [] n = "grok-video-latest" -> "grok-video"
    [] OTHER -> ""

\* Ids a remote listing may carry: a builtin id, a builtin id in another
\* case, dated and suffixed variants, a ratio variant and an unknown family.
RemoteIds == {"grok-4", "Grok-4-Fast", "grok-4-0709", "grok-image_9_16",
              "grok-4.1-fast-reasoning", "grok-5"}

\* String(modelId || "").trim().toLowerCase(); for the ids of the builtin
\* table and of the remote listings the value is computed once and kept.
KnownIds == {MODELS[i].id : i \in DOMAIN MODELS} \cup RemoteIds
NormalizedIdTable == [id \in KnownIds |-> toLowerCase(trim(id))]
normalizeModelId(modelId) ==
  IF modelId \in KnownIds THEN NormalizedIdTable[modelId]
  ELSE toLowerCase(trim(modelId))

\* new RegExp(`^${escaped}$`, "i").test(id): every character of the pattern
\* but `*` is literal, `*` stands for any run of characters.
RECURSIVE wildcardTest(_, _)
wildcardTest(pattern, id) ==
  IF Len(pattern) = 0 THEN Len(id) = 0
  ELSE IF SubSeq(pattern, 1, 1) = "*"
       THEN \/ wildcardTest(slice(pattern, 1), id)
            \/ Len(id) > 0 /\ wildcardTest(pattern, slice(id, 1))
       ELSE /\ Len(id) > 0
            /\ LowerChar(SubSeq(id, 1, 1)) = LowerChar(SubSeq(pattern, 1, 1))
            /\ wildcardTest(slice(pattern, 1), slice(id, 1))

\* MODELS.find((m) => normalizeModelId(m.id) === normalized)  (NoModel = undefined)
modelById(modelId) ==
  LET n == normalizeModelId(modelId)
      hits == {i \in DOMAIN MODELS : normalizeModelId(MODELS[i].id) = n}
  IN IF hits = {} THEN NoModel
     ELSE MODELS[CHOOSE i \in hits : \A j \in hits : i <= j]

IsDigits(d) ==
  /\ Len(d) > 0
  /\ \A i \in 1..Len(d) : SubSeq(d, i, i) \in {"0", "1", "2", "3", "4", "5", "6", "7", "8", "9"}

\* normalized.match(/^<family>[-_]?(\d+_\d+)$/)?.[1]  ("" = no match)
RatioSuffix(n, family) ==
  LET rest == slice(n, Len(family))
      body == IF Len(rest) > 0 /\ SubSeq(rest, 1, 1) \in {"-", "_"}
              THEN slice(rest, 1) ELSE rest
  IN IF \E k \in 1..Len(body) :
          /\ SubSeq(body, k, k) = "_"
          /\ IsDigits(SubSeq(body, 1, k - 1))
          /\ IsDigits(SubSeq(body, k + 1, Len(body)))
     THEN body ELSE ""

\* The ratio branch of a family: `grok-image-${match[1]}` if that is a
\* builtin id, the family id otherwise.
RatioMember(family, suffix) ==
  IF suffix # "" /\ modelById(family \o "-" \o suffix) # NoModel
  THEN family \o "-" \o suffix ELSE family

\* mapRemoteModelToCanonicalId on the normalized id n  ("" = null)
CanonicalIdOf(n) ==
  IF n = "" THEN ""
  ELSE IF modelById(n) # NoModel THEN n
  ELSE IF startsWith(n, "grok-image")
       THEN RatioMember("grok-image", RatioSuffix(n, "grok-image"))
  ELSE IF startsWith(n, "grok-video")
       THEN RatioMember("grok-video", RatioSuffix(n, "grok-video"))
  ELSE IF startsWith(n, "grok-4.1")
       THEN IF includes(n, "expert") THEN "grok-4.1-expert"
            ELSE IF includes(n, "thinking") THEN "grok-4.1-thinking"
            ELSE IF includes(n, "fast") THEN "grok-4.1-fast"
            ELSE "grok-4.1"
  ELSE IF startsWith(n, "grok-4-mini") THEN "grok-4-mini"
  ELSE IF startsWith(n, "grok-4")
       THEN IF includes(n, "heavy") THEN "grok-4-heavy"
            ELSE IF includes(n, "fast") THEN "grok-4-fast"
            ELSE "grok-4"
  ELSE IF startsWith(n, "grok-3")
       THEN IF includes(n, "fast") THEN "grok-3-fast" ELSE "grok-3"
  ELSE ""

mapRemoteModelToCanonicalId(remoteModelId) ==
  CanonicalIdOf(normalizeModelId(remoteModelId))

\* The type filter of getCanonicalModelForRemote on the model found.
OfType(model, type) ==
  IF model = NoModel THEN NoModel
  ELSE IF type # "" /\ model.type # type THEN NoModel
  ELSE model

\* getCanonicalModelForRemote(...)?.model  (NoModel = null; no builtin has
\* the id "", so a null canonical id gives no model)
getCanonicalModelForRemote(remoteModelId, type) ==
  OfType(modelById(mapRemoteModelToCanonicalId(remoteModelId)), type)

CandidateModel(id, model, source) == [id |-> id, model |-> model, source |-> source]

\* modelsOfType(type).map(...)
BuiltinCandidates(type) ==
  LET F[i \in 0..Len(MODELS)] ==
        IF i = 0 THEN <<>>
        ELSE IF type = "" \/ MODELS[i].type = type
             THEN Append(F[i - 1], CandidateModel(MODELS[i].id, MODELS[i], "builtin"))
             ELSE F[i - 1]
  IN F[Len(MODELS)]

\* One round of the loop of getCandidateModels: the candidates and the seen
\* set after the remote id, n its normalized form, mapped its model.
AfterRemote(acc, remoteId, n, mapped) ==
  IF n = "" \/ n \in acc.seen \/ mapped = NoModel THEN acc
  ELSE [candidates |-> Append(acc.candidates, CandidateModel(remoteId, mapped, "xai")),
        seen |-> acc.seen \cup {n}]

\* The loop of getCandidateModels over xaiModelCache.ids.
addRemote(ids, type, start) ==
  LET F[i \in 0..Len(ids)] ==
        IF i = 0 THEN start
        ELSE AfterRemote(F[i - 1], ids[i], normalizeModelId(ids[i]),
                         getCanonicalModelForRemote(ids[i], type))
  IN F[Len(ids)].candidates

NormalizedIds(candidates) ==
  {normalizeModelId(candidates[i].id) : i \in DOMAIN candidates}

\* getCandidateModels with the remote ids put ahead of the builtin ones and
\* never skipped for being seen.
getCandidateModelsRemoteFirst(ids, type) ==
  addRemote(ids, type, [candidates |-> <<>>, seen |-> {}]) \o BuiltinCandidates(type)

getCandidateModels(ids, type) ==
  LET Start(builtin) == [candidates |-> builtin, seen |-> NormalizedIds(builtin)]
  IN addRemote(ids, type, Start(BuiltinCandidates(type)))

Filter(seq, Test(_)) ==
  LET F[i \in 0..Len(seq)] ==
        IF i = 0 THEN <<>>
        ELSE IF Test(seq[i]) THEN Append(F[i - 1], seq[i]) ELSE F[i - 1]
  IN F[Len(seq)]

\* The filter of findCandidateMatches on the candidates, n being the
\* normalized query.
MatchesAmong(candidates, n) ==
  LET Matches(c) == wildcardTest(n, c.id)
      IsPrefix(c) == startsWith(normalizeModelId(c.id), n)
  IN IF n = "" THEN <<>>
     ELSE IF includes(n, "*") THEN Filter(candidates, Matches)
     ELSE Filter(candidates, IsPrefix)

findCandidateMatches(ids, query, type) ==
  MatchesAmong(getCandidateModels(ids, type), normalizeModelId(query))

\* a.localeCompare(b) < 0 on normalized ids: punctuation before digits before
\* letters, a proper prefix before its extensions.
Collation == "_-.0123456789abcdefghijklmnopqrstuvwxyz"
CharRank(c) ==
  IF \E k \in 1..Len(Collation) : SubSeq(Collation, k, k) = c
  THEN CHOOSE k \in 1..Len(Collation) : SubSeq(Collation, k, k) = c
  ELSE 0

RECURSIVE localeBefore(_, _)
localeBefore(a, b) ==
  IF Len(b) = 0 THEN FALSE
  ELSE IF Len(a) = 0 THEN TRUE
  ELSE IF SubSeq(a, 1, 1) = SubSeq(b, 1, 1) THEN localeBefore(slice(a, 1), slice(b, 1))
  ELSE CharRank(SubSeq(a, 1, 1)) < CharRank(SubSeq(b, 1, 1))

\* The comparator of pickPreferredCandidate gives a negative number.
SortsBefore(a, b) ==
  IF a.source # b.source THEN a.source = "builtin"
  ELSE IF Len(a.id) # Len(b.id) THEN Len(a.id) < Len(b.id)
  ELSE localeBefore(normalizeModelId(a.id), normalizeModelId(b.id))

\* A variant that takes the first match as it stands in the list.
pickFirstCandidate(candidates) ==
  candidates[1]

\* [...candidates].sort(...)[0]: the sort is stable.
pickPreferredCandidate(candidates) ==
  candidates[CHOOSE i \in DOMAIN candidates :
               \A j \in DOMAIN candidates \ {i} :
                 \/ SortsBefore(candidates[i], candidates[j])
                 \/ ~SortsBefore(candidates[j], candidates[i]) /\ i < j]

\* findModelCandidates: the models of the matches, each once, in order.
RECURSIVE distinctModels(_, _)
distinctModels(matches, output) ==
  IF matches = <<>> THEN output
  ELSE IF \E i \in DOMAIN output : output[i].id = Head(matches).model.id
       THEN distinctModels(Tail(matches), output)
       ELSE distinctModels(Tail(matches), Append(output, Head(matches).model))

findModelCandidates(ids, query, type) ==
  distinctModels(findCandidateMatches(ids, query, type), <<>>)

\* The first candidate whose normalized id is n (NoCandidate = undefined).
NoCandidate == CandidateModel("", NoModel, "")
FindExact(candidates, n) ==
  LET First(exact) == IF exact = {} THEN NoCandidate
                      ELSE candidates[CHOOSE i \in exact : \A j \in exact : i <= j]
  IN First({i \in DOMAIN candidates : normalizeModelId(candidates[i].id) = n})

\* The body of resolveModelInfo once its values are computed: requested and
\* n (trimmed, normalized), the exact candidate, the alias target's model and
\* the matches of findCandidateMatches.
ResolveWith(requested, n, type, exact, aliasResolved, wildcardCandidates) ==
  IF n = "" THEN Resolved(requested, "none", NoModel, <<>>)
  ELSE IF exact # NoCandidate
       THEN Resolved(requested, "exact", exact.model, <<exact.id>>)
  ELSE IF aliasResolved # NoModel /\ (type = "" \/ aliasResolved.type = type)
       THEN Resolved(requested, "alias", aliasResolved, <<aliasResolved.id>>)
  ELSE IF Len(wildcardCandidates) > 0
       THEN Resolved(requested, IF includes(n, "*") THEN "wildcard" ELSE "prefix",
                     pickPreferredCandidate(wildcardCandidates).model,
                     [i \in DOMAIN wildcardCandidates |-> wildcardCandidates[i].id])
  ELSE Resolved(requested, "none", NoModel, <<>>)

\* EXACT_ALIAS_MAP[normalized] resolved by modelById (NoModel = no alias).
AliasModel(n) ==
  LET Target(aliasTarget) == IF aliasTarget = "" THEN NoModel ELSE modelById(aliasTarget)
  IN Target(EXACT_ALIAS_MAP(n))

\* resolveModelInfo(requestedModel, type) over the cached remote ids; the
\* candidates of its two getCandidateModels calls are the same list.
ResolveAmong(candidates, requested, n, type) ==
  ResolveWith(requested, n, type, FindExact(candidates, n), AliasModel(n),
              MatchesAmong(candidates, n))

resolveModelInfo(ids, model, type) ==
  ResolveAmong(getCandidateModels(ids, type), trim(model),
               normalizeModelId(trim(model)), type)

MaxRemote == 2      \* ids in the remote cache

ModelTypes == {"", "text", "image", "video"}

\* The builtin ids as given, capitalised and with surrounding blanks; alias,
\* wildcard and prefix queries; queries that match nothing.
ModelQueries ==
  {MODELS[i].id : i \in DOMAIN MODELS}
    \cup {" G" \o slice(MODELS[i].id, 1) \o " " : i \in DOMAIN MODELS}
    \cup {"grok-4*", "grok-4", "GROK-4.1-FAST", "grok4", "grok-image-latest", "grok-",
          "*", "*fast", "grok-4.1*", "grok-4-07", "grok-4-", "grok-5", "", " ", "gpt-4"}

\* resolveModelInfo(requestedModel, type)
ResolveModel ==
  /\ resolved.matchedBy = "pending"
  /\ resolved' = resolveModelInfo(xaiModelCache.ids, requestedModel, requestedType)
  /\ UNCHANGED <<requestedModel, requestedType, found>>
  /\ UNCHANGED <<storeVars, retryVars, poolVars, sessionVars, thinkVars, importVars,
                 driverVars, connectVars, cancelVars, fetchVars, syncVars, usageVars,
                 videoVars>>

\* findModelCandidates(query, type)
FindCandidates ==
  /\ ~found.done
  /\ found' = [done |-> TRUE,
               models |-> findModelCandidates(xaiModelCache.ids, requestedModel,
                                              requestedType)]
  /\ UNCHANGED <<requestedModel, requestedType, resolved>>
  /\ UNCHANGED <<storeVars, retryVars, poolVars, sessionVars, thinkVars, importVars,
                 driverVars, connectVars, cancelVars, fetchVars, syncVars, usageVars,
                 videoVars>>

ResolveInit ==
  /\ tokens = StoreWith(1)
  /\ now = 1
  /\ call = NoCall
  /\ route = "chat" /\ token_id = 0 /\ count = 0 /\ pc = "closed"
  /\ excludedTokenIds = EmptyBag /\ retryCount = 0 /\ token = 0
  /\ completed = FALSE /\ collected = 0 /\ success = FALSE /\ lastError = ""
  /\ out = <<>> /\ attempts = 0 /\ emitted = 0
  /\ results = <<>> /\ receivedImages = <<>> /\ completedJobs = {}
  /\ failedJobs = {} /\ emittedJobs = {} /\ settled = TRUE
  /\ outcome = "resolved" /\ timer = FALSE
  /\ timeoutArmed = FALSE /\ readyState = "closed" /\ requestSent = FALSE
  /\ showThinking = TRUE /\ isThinking = FALSE /\ thinkingFinished = FALSE
  /\ chat_pc = "closed" /\ events = <<>> /\ upstream = <<>> /\ consumed = <<>>
  /\ table = {} /\ incoming = NoFields /\ importedRaw = {} /\ last = NoImport
  /\ drvCount = 0 /\ page = 0 /\ collectedJobs = {} /\ drvEvents = <<>>
  /\ sessions = <<>> /\ drvPc = "ended"
  /\ runtime = "node" /\ wsPhase = "live"
  /\ disconnected = FALSE /\ delivered = 0
  /\ httpStatus = 200 /\ errorText = ""
  /\ \E ids \in SeqsUpTo(RemoteIds, MaxRemote) :
       xaiModelCache = [ids |-> ids, updatedAt |-> IF ids = <<>> THEN 0 ELSE 1,
                        lastError |-> "", lastStatus |-> IF ids = <<>> THEN 0 ELSE 200]
  /\ syncCall = NoSyncCall
  /\ syncResult = NoSyncResult /\ syncLast = NoSync
  /\ picking = NoPicking /\ picked = NoPicks
  /\ requestedModel \in ModelQueries /\ requestedType \in ModelTypes
  /\ resolved = NoResolved /\ found = NoneFound
  /\ video = NoVideo /\ vidArgs = NoVideoArgs
  /\ vidCalls = <<>> /\ vidEvents = <<>>

ResolveNext ==
  \/ ResolveModel
  \/ FindCandidates

SpecResolve == ResolveInit /\ [][ResolveNext]_vars

---------------------------------------------------------------------------
(* One run of the video orchestrator: generateVideo (grok/video) with its  *)
(* bootstrap calls likePost and createMediaPost, then the progress stream. *)

MaxVideoReads == 2     \* chunks the progress stream arrives in
MaxChunkLines == 2     \* complete lines in one chunk

endsWith(s, p) == Len(s) >= Len(p) /\ SubSeq(s, Len(s) - Len(p) + 1, Len(s)) = p

ImageUrls == {"a.png", "a.jpg"}

\* An upstream call: like(id), create(media_url), generate(parentPostId).
VideoCall(op, arg) == [op |-> op, arg |-> arg]

\* The updates generateVideo yields.
VideoUpdate(type, video_id, progress, url, message) ==
  [type |-> type, video_id |-> video_id, progress |-> progress, url |-> url,
   message |-> message]
VideoError(message) == VideoUpdate("error", "", 0, "", message)
VideoDone == VideoUpdate("done", "", 0, "", "")

\* const urlsToTry = [imageUrl];
\* if (imageUrl.endsWith(".png")) urlsToTry.unshift(imageUrl.slice(0, -4) + ".jpg")
urlsToTry(imageUrl) ==
  IF endsWith(imageUrl, ".png")
  THEN <<SubSeq(imageUrl, 1, Len(imageUrl) - 4) \o ".jpg", imageUrl>>
  ELSE <<imageUrl>>

\* The post id the upstream gives for a media URL it accepts.
PostOf(url) == "post:" \o url

\* The loop of createMediaPost over `urls`; accepted holds the URLs for
\* which the upstream answers ok with a post id (any other answer, and a
\* fetch that throws, moves on to the next URL).
RECURSIVE tryUrls(_, _, _)
tryUrls(urls, accepted, calls) ==
  IF urls = <<>> THEN [postId |-> "", calls |-> calls]
  ELSE LET url == Head(urls)
           issued == Append(calls, VideoCall("create", url))
       IN IF url \in accepted THEN [postId |-> PostOf(url), calls |-> issued]
          ELSE tryUrls(Tail(urls), accepted, issued)

createMediaPost(imageUrl, accepted) == tryUrls(urlsToTry(imageUrl), accepted, <<>>)

\* function isCloudflareChallenge(status, body)
isCloudflareChallenge(status, body) ==
  /\ status = 403
  /\ LET lowered == toLowerCase(body) IN
       \/ includes(lowered, "cloudflare")
       \/ includes(lowered, "attention required")
       \/ includes(lowered, "just a moment")
       \/ includes(lowered, "<!doctype html")

\* What the generation request comes back with.
VideoResponse(kind, status, text, hasBody) ==
  [kind |-> kind, status |-> status, text |-> text, hasBody |-> hasBody]
VideoResponses ==
  { VideoResponse("throw", 0, "fetch failed", FALSE),
    VideoResponse("http", 403, "Just a moment...", FALSE),
    VideoResponse("http", 403, "", FALSE),
    VideoResponse("http", 500, "oops", FALSE),
    VideoResponse("http", 200, "", FALSE),
    VideoResponse("http", 200, "", TRUE) }

VideoHttpError(status, text) ==
  IF isCloudflareChallenge(status, text)
  THEN "Upstream 403 (Cloudflare challenge). Please refresh token cf_clearance/user_id and ensure they match the current server egress environment."
  ELSE IF status = 403 THEN "Upstream 403 forbidden. Please verify token validity."
  ELSE "HTTP " \o ToString(status) \o ": "
         \o SubSeq(text, 1, IF Len(text) < 200 THEN Len(text) ELSE 200)

\* A line of the progress stream with the fields the loop reads: hasResp =
\* result.response.streamingVideoGenerationResponse is there; videoId stands
\* for videoPostId || videoId.
VideoLine(hasResp, progress, videoId, videoUrl, moderated) ==
  [hasResp |-> hasResp, progress |-> progress, videoId |-> videoId,
   videoUrl |-> videoUrl, moderated |-> moderated]
VideoLines ==
  { VideoLine(FALSE, 0, "", "", FALSE),
    VideoLine(TRUE, 50, "v", "", FALSE),
    VideoLine(TRUE, 100, "", "/u.mp4", FALSE),
    VideoLine(TRUE, 100, "v", "/u.mp4", FALSE),
    VideoLine(TRUE, 50, "", "", TRUE),
    VideoLine(TRUE, 100, "v", "/u.mp4", TRUE) }

ModeratedMessage == "Video generation blocked: content moderated"
IncompleteMessage == "Video generation incomplete: no videoUrl received"

\* The loop body without its moderation check.
videoLineUnchecked(st, line) ==
  IF ~line.hasResp THEN st
  ELSE LET videoId == IF line.videoId # "" THEN line.videoId ELSE st.videoId
           videoUrl == IF line.videoUrl # "" THEN line.videoUrl ELSE st.videoUrl
       IN IF line.progress # st.lastProgress
          THEN [st EXCEPT !.videoId = videoId, !.videoUrl = videoUrl,
                          !.lastProgress = line.progress,
                          !.events = Append(st.events,
                                            VideoUpdate("progress", videoId,
                                                        line.progress, "", ""))]
          ELSE [st EXCEPT !.videoId = videoId, !.videoUrl = videoUrl]

\* The body of `for (const line of lines)` for one line; returned = the
\* generator returned from inside the loop.
videoLine(st, line) ==
  IF ~line.hasResp THEN st
  ELSE LET videoId == IF line.videoId # "" THEN line.videoId ELSE st.videoId
           videoUrl == IF line.videoUrl # "" THEN line.videoUrl ELSE st.videoUrl
       IN IF line.moderated
          THEN [st EXCEPT !.videoId = videoId, !.videoUrl = videoUrl,
                          !.events = Append(st.events, VideoError(ModeratedMessage)),
                          !.returned = TRUE]
          ELSE IF line.progress # st.lastProgress
          THEN [st EXCEPT !.videoId = videoId, !.videoUrl = videoUrl,
                          !.lastProgress = line.progress,
                          !.events = Append(st.events,
                                            VideoUpdate("progress", videoId,
                                                        line.progress, "", ""))]
          ELSE [st EXCEPT !.videoId = videoId, !.videoUrl = videoUrl]

RECURSIVE forVideoLines(_, _)
forVideoLines(lines, st) ==
  IF lines = <<>> THEN st
  ELSE LET r == videoLine(st, Head(lines)) IN
         IF r.returned THEN r ELSE forVideoLines(Tail(lines), r)

\* videoUrl.startsWith("http") ? videoUrl
\*   : `https://assets.grok.com/${videoUrl.replace(/^\//, "")}`
originalUrl(videoUrl) ==
  IF startsWith(videoUrl, "http") THEN videoUrl
  ELSE "https://assets.grok.com/"
         \o (IF startsWith(videoUrl, "/") THEN slice(videoUrl, 1) ELSE videoUrl)

\* let liked = await likePost(actualPostId, cookie)
VideoLike(isOk) ==
  /\ video.pc = "like"
  /\ vidCalls' = Append(vidCalls, VideoCall("like", video.actualPostId))
  /\ video' = [video EXCEPT !.liked = isOk,
                            !.pc = IF isOk THEN "request" ELSE "create"]
  /\ UNCHANGED <<vidArgs, vidEvents>>
  /\ UNCHANGED <<storeVars, retryVars, poolVars, sessionVars, thinkVars, importVars,
                 driverVars, connectVars, cancelVars, fetchVars, syncVars, usageVars,
                 resolveVars>>

\* if (!liked) { const createdPostId = await createMediaPost(imageUrl, cookie)
VideoCreatePost(accepted) ==
  /\ video.pc = "create"
  /\ LET r == createMediaPost(vidArgs.imageUrl, accepted) IN
       /\ vidCalls' = vidCalls \o r.calls
       /\ video' = IF r.postId # ""
                   THEN [video EXCEPT !.actualPostId = r.postId, !.pc = "relike"]
                   ELSE [video EXCEPT !.pc = "request"]
  /\ UNCHANGED <<vidArgs, vidEvents>>
  /\ UNCHANGED <<storeVars, retryVars, poolVars, sessionVars, thinkVars, importVars,
                 driverVars, connectVars, cancelVars, fetchVars, syncVars, usageVars,
                 resolveVars>>

\* if (createdPostId) { ...; liked = await likePost(actualPostId, cookie) }
VideoRelike(isOk) ==
  /\ video.pc = "relike"
  /\ vidCalls' = Append(vidCalls, VideoCall("like", video.actualPostId))
  /\ video' = [video EXCEPT !.liked = isOk, !.pc = "request"]
  /\ UNCHANGED <<vidArgs, vidEvents>>
  /\ UNCHANGED <<storeVars, retryVars, poolVars, sessionVars, thinkVars, importVars,
                 driverVars, connectVars, cancelVars, fetchVars, syncVars, usageVars,
                 resolveVars>>

\* The generation request with parentPostId: actualPostId, and what follows
\* its answer up to the first reader.read().
VideoRequest(response) ==
  /\ video.pc = "request"
  /\ vidCalls' = Append(vidCalls, VideoCall("generate", video.actualPostId))
  /\ IF response.kind = "throw"
     THEN /\ vidEvents' = Append(vidEvents, VideoError(response.text))
          /\ video' = [video EXCEPT !.pc = "ended", !.exit = "thrown"]
     ELSE IF ~ok(response.status)
     THEN /\ vidEvents' = Append(vidEvents,
                                 VideoError(VideoHttpError(response.status,
                                                           response.text)))
          /\ video' = [video EXCEPT !.pc = "ended", !.exit = "http"]
     ELSE IF ~response.hasBody
     THEN /\ vidEvents' = Append(vidEvents, VideoError("No response body"))
          /\ video' = [video EXCEPT !.pc = "ended", !.exit = "nobody"]
     ELSE /\ video' = [video EXCEPT !.pc = "reading"]
          /\ UNCHANGED vidEvents
  /\ UNCHANGED vidArgs
  /\ UNCHANGED <<storeVars, retryVars, poolVars, sessionVars, thinkVars, importVars,
                 driverVars, connectVars, cancelVars, fetchVars, syncVars, usageVars,
                 resolveVars>>

\* reader.read() returns a chunk that completes `lines`.
VideoRead(lines) ==
  /\ video.pc = "reading"
  /\ video.reads < MaxVideoReads
  /\ LET r == forVideoLines(lines,
                            [videoId |-> video.videoId, videoUrl |-> video.videoUrl,
                             lastProgress |-> video.lastProgress,
                             events |-> vidEvents, returned |-> FALSE]) IN
       /\ vidEvents' = r.events
       /\ video' = [video EXCEPT !.videoId = r.videoId, !.videoUrl = r.videoUrl,
                                 !.lastProgress = r.lastProgress,
                                 !.reads = video.reads + 1,
                                 !.pc = IF r.returned THEN "ended" ELSE "reading",
                                 !.exit = IF r.returned THEN "moderated" ELSE "",
                                 !.moderatedSeen =
                                    \E i \in DOMAIN lines :
                                      lines[i].hasResp /\ lines[i].moderated]
  /\ UNCHANGED <<vidArgs, vidCalls>>
  /\ UNCHANGED <<storeVars, retryVars, poolVars, sessionVars, thinkVars, importVars,
                 driverVars, connectVars, cancelVars, fetchVars, syncVars, usageVars,
                 resolveVars>>

\* reader.read() returns done: the code after the loop.
VideoReadDone ==
  /\ video.pc = "reading"
  /\ IF video.videoUrl # "" /\ video.videoId # ""
     THEN /\ vidEvents' = vidEvents \o
                <<VideoUpdate("complete", video.videoId, 0,
                              originalUrl(video.videoUrl), ""),
                  VideoDone>>
          /\ video' = [video EXCEPT !.pc = "ended", !.exit = "complete"]
     ELSE /\ vidEvents' = Append(vidEvents, VideoError(IncompleteMessage))
          /\ video' = [video EXCEPT !.pc = "ended", !.exit = "incomplete"]
  /\ UNCHANGED <<vidArgs, vidCalls>>
  /\ UNCHANGED <<storeVars, retryVars, poolVars, sessionVars, thinkVars, importVars,
                 driverVars, connectVars, cancelVars, fetchVars, syncVars, usageVars,
                 resolveVars>>

\* reader.read() rejects: the catch block yields the error.
VideoReadFails ==
  /\ video.pc = "reading"
  /\ vidEvents' = Append(vidEvents, VideoError("terminated"))
  /\ video' = [video EXCEPT !.pc = "ended", !.exit = "thrown"]
  /\ UNCHANGED <<vidArgs, vidCalls>>
  /\ UNCHANGED <<storeVars, retryVars, poolVars, sessionVars, thinkVars, importVars,
                 driverVars, connectVars, cancelVars, fetchVars, syncVars, usageVars,
                 resolveVars>>

VideoInit ==
  /\ tokens = StoreWith(1)
  /\ now = 1
  /\ call = NoCall
  /\ route = "chat" /\ token_id = 0 /\ count = 0 /\ pc = "closed"
  /\ excludedTokenIds = EmptyBag /\ retryCount = 0 /\ token = 0
  /\ completed = FALSE /\ collected = 0 /\ success = FALSE /\ lastError = ""
  /\ out = <<>> /\ attempts = 0 /\ emitted = 0
  /\ results = <<>> /\ receivedImages = <<>> /\ completedJobs = {}
  /\ failedJobs = {} /\ emittedJobs = {} /\ settled = TRUE
  /\ outcome = "resolved" /\ timer = FALSE
  /\ timeoutArmed = FALSE /\ readyState = "closed" /\ requestSent = FALSE
  /\ showThinking = TRUE /\ isThinking = FALSE /\ thinkingFinished = FALSE
  /\ chat_pc = "closed" /\ events = <<>> /\ upstream = <<>> /\ consumed = <<>>
  /\ table = {} /\ incoming = NoFields /\ importedRaw = {} /\ last = NoImport
  /\ drvCount = 0 /\ page = 0 /\ collectedJobs = {} /\ drvEvents = <<>>
  /\ sessions = <<>> /\ drvPc = "ended"
  /\ runtime = "node" /\ wsPhase = "live"
  /\ disconnected = FALSE /\ delivered = 0
  /\ httpStatus = 200 /\ errorText = ""
  /\ xaiModelCache = EmptyCache /\ syncCall = NoSyncCall
  /\ syncResult = NoSyncResult /\ syncLast = NoSync
  /\ picking = NoPicking /\ picked = NoPicks
  /\ requestedModel = "" /\ requestedType = ""
  /\ resolved = NoResolved /\ found = NoneFound
  /\ vidArgs \in [imageUrl : ImageUrls, parentPostId : {"p"}]
  /\ video = VideoLocals("like", vidArgs.parentPostId, FALSE, "", "", -1, 0, "",
                         FALSE)
  /\ vidCalls = <<>> /\ vidEvents = <<>>

VideoNext ==
  \/ \E isOk \in BOOLEAN : VideoLike(isOk)
  \/ \E accepted \in SUBSET {"a.png", "a.jpg"} : VideoCreatePost(accepted)
  \/ \E isOk \in BOOLEAN : VideoRelike(isOk)
  \/ \E response \in VideoResponses : VideoRequest(response)
  \/ \E lines \in SeqsUpTo(VideoLines, MaxChunkLines) : VideoRead(lines)
  \/ VideoReadDone
  \/ VideoReadFails

SpecVideo == VideoInit /\ [][VideoNext]_vars

---------------------------------------------------------------------------
(* What the caller has received, read back from `out`.                     *)

AllFailures == ChatFailures \cup ImageFailures \cup VideoFailures \cup ChatThrown

\* An error as the caller sees one: an SSE `error` event, a chat chunk whose
\* content is "[Error: ...]", a JSON response with an error status.
IsError(e) ==
  \/ e.type = "error"
  \/ e.type = "content" /\ includes(e.message, "[Error: ")
  \/ e.type = "response" /\ e.status >= 400

\* The message an error carries; the chat chunk wraps it in "[Error: " "]".
ErrorText(e) ==
  IF e.type = "content" THEN SubSeq(e.message, 9, Len(e.message) - 1) ELSE e.message

Errors(o) == SelectSeq(o, IsError)

SaysNoCredentials(m) == includes(m, "No available tokens")
SaysAllFailed(m) == includes(m, "All tokens rate limited")

\* The attempt in progress ends with failure f, reported or thrown.
FailsWith(f) == GenError(f) \/ GenThrow(f)

\* ... and the route's test of the message says "terminal".
FailsTerminal(f) ==
  \/ GenError(f) /\ ~updateRetryable(route, f.message)
  \/ GenThrow(f) /\ ~catchRetryable(route, f.message)

\* No attempt succeeded: no chat `done`, no image collected, no video complete.
NoSuccess == ~success /\ collected = 0 /\ ~completed

---------------------------------------------------------------------------
(* Claims about the retry coordinators (SpecRetry).                        *)

\* C1: for one outward request the retry counter never exceeds MAX_RETRIES,
\* the exclusion list never holds more than MAX_RETRIES credentials, and no
\* generation attempt is in progress once the counter has reached MAX_RETRIES.
C1_RetryBound ==
  /\ retryCount <= MAX_RETRIES
  /\ BagCardinality(excludedTokenIds) <= MAX_RETRIES
  /\ pc = "gen" => retryCount < MAX_RETRIES

\* The bound, not the pool, stopped the request: a credential is still pickable.
C1_Witness ==
  /\ pc = "closed"
  /\ retryCount = MAX_RETRIES
  /\ BagCardinality(excludedTokenIds) = MAX_RETRIES
  /\ ActiveRows(tokens, excludedTokenIds) # {}

\* C2: when an attempt ends with an error that the route's test does not call
\* retryable, the request ends with that step (no further pick, no further
\* attempt) and that error's message is the only error the caller has received.
C2_TerminalStops ==
  [][\A f \in AllFailures :
       FailsTerminal(f) =>
         /\ pc' = "closed"
         /\ Len(Errors(out')) = 1
         /\ ErrorText(Errors(out')[1]) = f.message]_vars

\* C3: when an attempt fails with a rate-limit, anti-bot-challenge or
\* unauthorized error while the counter is below the bound, the credential
\* is added to the exclusion list, the counter grows by one and the loop
\* goes round again; every attempt starts with a credential outside the list.
C3_RetryableSwitches ==
  [][/\ \A f \in AllFailures :
          (f.kind \in RetryableKinds /\ retryCount < MAX_RETRIES /\ FailsWith(f)) =>
            /\ BagIn(token, excludedTokenIds')
            /\ retryCount' = retryCount + 1
            /\ pc' = "loop"
     /\ PickToken => ~BagIn(token', excludedTokenIds)]_vars

\* C4: an error of any other kind (moderation block, incomplete result, 403
\* forbidden without challenge, other HTTP status, transport failure, unknown
\* model) adds no credential to the exclusion list, leaves the counter alone
\* and ends the request: no further attempt.
C4_OthersTerminal ==
  [][\A f \in AllFailures :
       (f.kind \notin RetryableKinds /\ FailsWith(f)) =>
         /\ excludedTokenIds' = excludedTokenIds
         /\ retryCount' = retryCount
         /\ pc' = "closed"]_vars

\* C5: when the counter has reached the bound and no attempt succeeded, the
\* caller has received an error that carries the last retryable error; a
\* non-streaming caller has received that single response and nothing else.
C5_ExhaustionReported ==
  (pc = "closed" /\ retryCount = MAX_RETRIES /\ NoSuccess) =>
    /\ \E i \in DOMAIN out :
         /\ IsError(out[i])
         /\ lastError # "" => includes(ErrorText(out[i]), lastError)
    /\ ~Streaming(route) => Len(out) = 1

\* C6: when the loop head finds no credential to pick, the request ends with
\* that step, and the one error it adds says "no credentials" if the
\* exclusion list is empty and "all excluded credentials failed" if it is not.
C6_NoCredential ==
  [][(pc = "loop" /\ LoopCond /\ Preferred = 0
        /\ ActiveRows(tokens, excludedTokenIds) = {}) =>
       /\ pc' = "closed"
       /\ attempts' = attempts
       /\ LET errs == Errors(SubSeq(out', Len(out) + 1, Len(out'))) IN
            /\ Len(errs) = 1
            /\ IF BagCardinality(excludedTokenIds) = 0
               THEN SaysNoCredentials(ErrorText(errs[1]))
                    /\ ~SaysAllFailed(ErrorText(errs[1]))
               ELSE SaysAllFailed(ErrorText(errs[1]))
                    /\ ~SaysNoCredentials(ErrorText(errs[1]))]_vars

\* Every credential of the pool was tried and failed before the bound.
C6_Witness ==
  /\ pc = "closed"
  /\ retryCount < MAX_RETRIES
  /\ BagCardinality(excludedTokenIds) > 0
  /\ ActiveRows(tokens, excludedTokenIds) = {}
  /\ \E i \in DOMAIN out : IsError(out[i]) /\ SaysAllFailed(ErrorText(out[i]))

IsInfo(e) == e.type = "info"
InfoCount(o) == Len(SelectSeq(o, IsInfo))

\* C16: in every streaming coordinator, each retryable failure that is
\* followed by another attempt has put one `info` event into the stream
\* before that attempt starts, right after the last event of the failed
\* attempt: when an attempt starts the stream holds as many `info` events as
\* there were credential switches, and an `info` event is only ever added,
\* alone, by the step that handles the failure.
C16_InfoBeforeNextAttempt ==
  [][Streaming(route) =>
       /\ (pc = "loop" /\ pc' = "gen") =>
            (InfoCount(out) = retryCount /\ out' = out)
       /\ InfoCount(out') > InfoCount(out) =>
            /\ retryCount' = retryCount + 1
            /\ Len(out') = Len(out) + 1
            /\ SubSeq(out', 1, Len(out)) = out]_vars

\* C17: once the consumer has disconnected, the task picks no further
\* credential, starts no further generation attempt, and no step it takes
\* leaves an attempt running (it stops reading the upstream it has open).
C17_StopsOnDisconnect ==
  [][(disconnected /\ ~Broken) =>
       /\ attempts' = attempts
       /\ tokens' = tokens
       /\ Broken' \/ pc' # "gen"]_vars

---------------------------------------------------------------------------
(* Claims about the credential store (SpecPool).                           *)

\* C7: what getRandomToken(excludeIds) returns is a credential of the store
\* whose status is active and whose id is not in excludeIds, and it returns
\* null exactly when the store holds no such credential.
C7_PickRandom ==
  call.op = "getRandomToken" =>
    /\ call.result # 0 =>
         /\ call.result \in TokenIds
         /\ tokens[call.result].status = "active"
         /\ ~BagIn(call.result, call.excludeIds)
    /\ call.result = 0 <=>
         ~\E t \in TokenIds :
            tokens[t].status = "active" /\ ~BagIn(t, call.excludeIds)

\* A pick among several candidates, with an active credential excluded and a
\* disabled one in the store.
C7_Witness ==
  /\ call.op = "getRandomToken"
  /\ call.result # 0
  /\ \E t \in TokenIds : BagIn(t, call.excludeIds) /\ tokens[t].status = "active"
  /\ \E t \in TokenIds : tokens[t].status = "disabled"
  /\ Cardinality(ActiveRows(tokens, call.excludeIds)) > 1

---------------------------------------------------------------------------
(* Claims about the image-collection session (SpecSession).                *)

\* C8: within one session the result list holds at most one entry per job
\* id and no entry whose moderated flag is set.
C8_ResultsUnique ==
  /\ \A i, j \in DOMAIN results : results[i].job_id = results[j].job_id => i = j
  /\ \A i \in DOMAIN results : ~results[i].moderated

\* A job whose full image was emitted, and for which a larger, moderated
\* image arrived afterwards; a second job emitted as well.
C8_Witness ==
  /\ Len(results) = NumJobs
  /\ \E i \in DOMAIN results :
       LET j == results[i].job_id IN
         /\ receivedImages[j].moderated
         /\ receivedImages[j].blobLen > results[i].blobLen

---------------------------------------------------------------------------
(* Claims about the thinking markers (SpecThink).                          *)

HasOpen(e) == e.type = "token" /\ includes(e.content, "<think>")
HasClose(e) == e.type = "token" /\ includes(e.content, "</think>")

Opens(evs) == Len(SelectSeq(evs, HasOpen))
Closes(evs) == Len(SelectSeq(evs, HasClose))

\* C9: with show-thinking on, one response carries at most one opening and
\* at most one closing marker, and after a closing marker no thinking token
\* and no opening marker is emitted.
C9_MarkersOnce ==
  showThinking =>
    /\ Opens(events) <= 1
    /\ Closes(events) <= 1
    /\ \A i, j \in DOMAIN events :
         (i < j /\ HasClose(events[i])) =>
           ~events[j].thinking /\ ~HasOpen(events[j])

\* C10: with show-thinking on, in a response that ended with `done` every
\* closing marker is preceded by an opening marker not yet closed, and no
\* opening marker is left without its closing marker.
C10_MarkersBalanced ==
  (showThinking /\ chat_pc = "done") =>
    /\ \A n \in 0..Len(events) :
         Closes(SubSeq(events, 1, n)) <= Opens(SubSeq(events, 1, n))
    /\ Opens(events) = Closes(events)
    /\ events[Len(events)] = DoneEvent

\* The upstream ended in the THINKING state: the bare closing marker is the
\* last event before `done`.
C10_Witness ==
  /\ showThinking /\ chat_pc = "done"
  /\ isThinking
  /\ Len(events) >= 3
  /\ events[Len(events) - 1] = TokenEvent(CloseMarker, FALSE)
  /\ Opens(events) = 1

\* The lines of a chunk that the for loop handles: those up to the first
\* modelResponse line (the break skips the rest of the chunk).
RECURSIVE Processed(_)
Processed(lines) ==
  IF lines = <<>> THEN <<>>
  ELSE IF Head(lines).hasResp /\ Head(lines).modelResponse THEN <<>>
  ELSE <<Head(lines)>> \o Processed(Tail(lines))

IsAnswerToken(l) == l.hasResp /\ ~l.modelResponse /\ l.token # "" /\ ~l.isThinking
IsThinkingToken(l) == l.hasResp /\ ~l.modelResponse /\ l.token # "" /\ l.isThinking

RECURSIVE AnswerEvents(_)
AnswerEvents(lines) ==
  IF lines = <<>> THEN <<>>
  ELSE IF IsAnswerToken(Head(lines))
       THEN <<TokenEvent(Head(lines).token, FALSE)>> \o AnswerEvents(Tail(lines))
       ELSE AnswerEvents(Tail(lines))

\* C11: with show-thinking off, no event carries an opening or closing
\* marker or a thinking token, and each chunk adds to the output exactly the
\* processed non-thinking tokens with non-empty text, each with its text
\* unchanged and in upstream order.
C11_ThinkingDropped ==
  /\ [](~showThinking =>
          \A i \in DOMAIN events :
            ~HasOpen(events[i]) /\ ~HasClose(events[i]) /\ ~events[i].thinking)
  /\ [][\A k \in 1..MaxLines :
          (Read(k) /\ ~showThinking) =>
            events' = events \o AnswerEvents(Processed(SubSeq(upstream, 1, k)))]_vars

\* With show-thinking off, a thinking token and then an answer token were
\* read: only the answer token reached the caller.
C11_Witness ==
  /\ ~showThinking
  /\ Len(consumed) = 2
  /\ IsThinkingToken(consumed[1])
  /\ IsAnswerToken(consumed[2])
  /\ events = <<TokenEvent(consumed[2].token, FALSE)>>

---------------------------------------------------------------------------
(* Claims about the credential import (SpecImport).                        *)

\* The normalized form of a secret as given: without a leading "sso=", or
\* else without surrounding blanks.
Normalized(raw) ==
  IF Len(raw) >= 4 /\ SubSeq(raw, 1, 4) = "sso=" THEN SubSeq(raw, 5, Len(raw))
  ELSE trim(raw)

\* C12: after any sequence of imports, the table holds exactly one row for
\* each distinct normalized secret imported and not deleted, and no other
\* row; the row's id is the hash of the normalized secret, the same on
\* every import.
C12_OneRowPerSecret ==
  /\ \A raw \in importedRaw :
       /\ Cardinality({r \in table : r.sso = Normalized(raw)}) = 1
       /\ \A r \in table :
            r.sso = Normalized(raw) => r.id = generateTokenId(Normalized(raw))
  /\ \A r \in table : \E raw \in importedRaw : r.sso = Normalized(raw)
  /\ \A r1, r2 \in table : r1.id = r2.id => r1 = r2

\* The secret "a" was imported in three spellings and "b" once; the last
\* import met the row that was there: two rows.
C12_Witness ==
  /\ {"a", "sso=a", " a ", "b"} \subseteq importedRaw
  /\ last.op \in {"addToken", "addTokensBulk"}
  /\ last.existed # {}
  /\ Cardinality(table) = 2

\* The row the claim describes after an import met the stored row r.
ClaimedMerge(r, f) ==
  [r EXCEPT !.sso_rw = IF f.sso_rw = "" THEN r.sso_rw ELSE f.sso_rw,
            !.user_id = IF f.user_id = "" THEN r.user_id ELSE f.user_id,
            !.cf_clearance = IF f.cf_clearance = "" THEN r.cf_clearance
                             ELSE f.cf_clearance,
            !.name = IF f.name = "" THEN r.name ELSE f.name]

\* C13: an import (addToken or addTokensBulk) of a secret that is already
\* stored gives each of sso_rw, user_id, cf_clearance and name the incoming
\* value if that is non-empty and keeps the stored value otherwise, and
\* leaves every other column of the row as it was.
C13_MergeNonEmpty ==
  [][/\ \A sso \in RawSecrets :
          addTokenFull(sso) =>
            \A r \in table :
              r.id = generateTokenId(cleanSso(sso)) =>
                ClaimedMerge(r, incoming) \in table'
     /\ \A items \in SeqsUpTo(BulkSecrets, MaxBulk) \ {<<>>} :
          addTokensBulk(items) =>
            \A r \in table :
              r.id \in ItemIds(items) => ClaimedMerge(r, incoming) \in table']_vars

---------------------------------------------------------------------------
(* Claims about the image driver (SpecDriver).                             *)

NoRejection == \A i \in DOMAIN sessions : ~sessions[i].rejected

\* The page budget as the claim states it.
PageBudget(cnt) == ((cnt + 5) \div 6) + 2

\* C14: the driver opens the next session exactly when no session has
\* rejected, fewer than count images are collected and fewer than
\* ceil(count/6)+2 sessions have been opened; the first session is an initial
\* request, every later one a continuation; asked for 10 images and given 6
\* new ones per session it stops after exactly 2 sessions; no run opens more
\* than ceil(count/6)+2 sessions.
C14_PageLoop ==
  /\ [](/\ Len(sessions) <= PageBudget(drvCount)
        /\ \A i \in DOMAIN sessions : sessions[i].isScroll = (i > 1)
        /\ (drvPc = "ended" /\ NoRejection) =>
              \/ Cardinality(collectedJobs) >= drvCount
              \/ Len(sessions) = PageBudget(drvCount)
        /\ (/\ drvPc = "ended" /\ drvCount = 10 /\ NoRejection
            /\ \A i \in DOMAIN sessions : sessions[i].fresh = 6)
              => Len(sessions) = 2)
  /\ [][Len(sessions') > Len(sessions) =>
          /\ Len(sessions') = Len(sessions) + 1
          /\ NoRejection
          /\ Cardinality(collectedJobs) < drvCount
          /\ Len(sessions) < PageBudget(drvCount)]_vars

\* Asked for 10 images, the driver got 6 new ones from each of two sessions
\* and ended with `done`.
C14_Witness ==
  /\ drvCount = 10
  /\ drvPc = "ended"
  /\ Len(sessions) = 2
  /\ \A i \in DOMAIN sessions : sessions[i].fresh = 6 /\ ~sessions[i].rejected
  /\ Cardinality(collectedJobs) = 10
  /\ drvEvents[Len(drvEvents)].type = "done"

---------------------------------------------------------------------------
(* Claims about the lifetime of a session (SpecConnectFair).               *)

\* C15: every connectAndReceive call eventually settles, on the Node path
\* and on the Worker upgrade path: if nothing else settles it, the timeout
\* resolves it.
C15_EventuallySettles == <>(outcome # "pending")

---------------------------------------------------------------------------
(* Claims about the upstream answer of the text chat (SpecFetch).          *)

ChallengeMarkers ==
  {"cloudflare", "attention required", "just a moment", "<!doctype html"}

\* The body contains marker m, in any letter case.
ContainsAnyCase(text, m) ==
  \E i \in 1..(Len(text) - Len(m) + 1) :
    toLowerCase(SubSeq(text, i, i + Len(m) - 1)) = m

\* C18: when the upstream answers with a non-2xx status, the stream emits
\* exactly one `error` event and nothing else: the challenge error for a 403
\* whose body contains a challenge marker in any letter case, the forbidden
\* error for any other 403, the generic HTTP error with the status for any
\* other status.
C18_HttpErrorMapping ==
  (httpStatus # 0 /\ ~(httpStatus >= 200 /\ httpStatus <= 299) /\ chat_pc # "fetching") =>
    /\ chat_pc = "failed"
    /\ Len(events) = 1
    /\ events[1].type = "error"
    /\ IF httpStatus = 403
       THEN IF \E m \in ChallengeMarkers : ContainsAnyCase(errorText, m)
            THEN events[1].content = "Upstream 403 (Cloudflare challenge)."
            ELSE events[1].content = "Upstream 403 forbidden."
       ELSE /\ startsWith(events[1].content, "HTTP " \o ToString(httpStatus) \o ":")
            /\ ~includes(events[1].content, "Upstream 403")

\* A 403 whose body says "Just a moment..." was mapped to the challenge error.
C18_Witness ==
  /\ httpStatus = 403
  /\ errorText = "Just a moment..."
  /\ chat_pc = "failed"
  /\ events = <<ErrorEvent("Upstream 403 (Cloudflare challenge).")>>

---------------------------------------------------------------------------
(* The catalogue cache.                                                    *)

\* The cache age a call saw is below its ttl, some sync having succeeded.
SawFreshCache(b) ==
  /\ b.cache.updatedAt > 0
  /\ b.at - b.cache.updatedAt < b.ttlMs

\* C19: after a successful sync, a non-forced sync call made while the cache
\* age is below ttlMs performs no remote fetch and leaves the cache
\* unchanged, whatever id list the successful sync stored, the empty list
\* included.
C19_FreshCacheNoFetch ==
  (syncLast.op = "call" /\ ~syncLast.force /\ SawFreshCache(syncLast))
    => (~syncLast.fetched /\ xaiModelCache = syncLast.cache)

\* A sync that failed: a rejected fetch, a non-2xx status, or a 2xx answer
\* whose body is no JSON or carries no data array.
SyncFailed(response) ==
  \/ response.kind = "throw"
  \/ response.kind = "http" /\ ~ok(response.status)
  \/ response.kind = "http" /\ response.payload.json # "listing"

\* C20: a sync that fails (non-2xx status, malformed or non-JSON body, or
\* transport error) leaves the cached id list and its update time unchanged,
\* records the error and returns ok = false.
C20_FailedSyncKeepsCache ==
  (syncLast.op = "done" /\ SyncFailed(syncLast.response))
    => /\ xaiModelCache.ids = syncLast.cache.ids
       /\ xaiModelCache.updatedAt = syncLast.cache.updatedAt
       /\ xaiModelCache.lastError # ""
       /\ ~syncResult.ok

---------------------------------------------------------------------------
(* Usage bookkeeping of the credential store (SpecUsage).                  *)

\* A call of getRandomToken returns credential t in this step.
PickReturns(t) ==
  \E c \in Pickers :
    /\ picking[c].pc = "selected" /\ picking[c].token = t
    /\ picking'[c].pc = "idle"

\* C21: a getRandomToken call that returns credential t raises t's use_count
\* by exactly one and sets its last_used, and changes no other row; a call
\* that returns null, and every getToken and listTokens call, leave the
\* store unchanged. So under any interleaving the use_count of a stored
\* credential equals the number of getRandomToken calls that returned it
\* since its row was inserted. (A credential whose row was deleted between
\* the SELECT and the UPDATE of the call has no row to count in.)
C21_UsageCount ==
  /\ [](\A t \in TokenIds : getToken(tokens, t) # 0 => tokens[t].use_count = picked[t])
  /\ [][/\ \A t \in TokenIds :
            (PickReturns(t) /\ getToken(tokens, t) # 0) =>
              /\ tokens'[t].use_count = tokens[t].use_count + 1
              /\ tokens'[t].last_used = now
              /\ tokens'[t].status = tokens[t].status
              /\ \A u \in TokenIds \ {t} : tokens'[u] = tokens[u]
        /\ (call'.op \in {"getToken", "listTokens"}
             \/ (call'.op = "getRandomToken" /\ call'.result = 0
                 /\ ~\E t \in TokenIds : PickReturns(t)))
            => tokens' = tokens]_vars

\* A credential picked twice, the second pick just returned by a call
\* after the clock moved on, next to an active credential never picked.
C21_Witness ==
  /\ call.op = "getRandomToken" /\ call.result # 0
  /\ tokens[call.result].use_count = 2
  /\ tokens[call.result].last_used > 1
  /\ \E u \in TokenIds : u # call.result /\ tokens[u].status = "active"
                          /\ tokens[u].use_count = 0

---------------------------------------------------------------------------
(* Claims about the model catalogue (SpecResolve).                         *)

\* The builtin descriptor the request names, its id written in any letter
\* case and with surrounding blanks.
NamedBuiltin == modelById(requestedModel)

\* C22: for every builtin descriptor d and every content of the remote
\* cache, resolveModelInfo of d.id, written in any letter case and with
\* surrounding blanks, with no type or with d's type, returns d with
\* matchedBy "exact" and the candidate list [d.id].
C22_BuiltinExact ==
  (/\ resolved.matchedBy # "pending"
   /\ NamedBuiltin # NoModel
   /\ requestedType \in {"", NamedBuiltin.type})
    => /\ resolved.matchedBy = "exact"
       /\ resolved.model = NamedBuiltin
       /\ resolved.candidates = <<NamedBuiltin.id>>

\* A builtin id given capitalised and between blanks, resolved while the
\* remote cache holds the same id in another letter case.
C22_Witness ==
  /\ resolved.matchedBy = "exact"
  /\ requestedModel = " Grok-4-fast "
  /\ requestedType = "text"
  /\ \E i \in DOMAIN xaiModelCache.ids : xaiModelCache.ids[i] = "Grok-4-Fast"

\* The builtin ids that start with "grok-4".
Grok4Ids == {"grok-4", "grok-4-mini", "grok-4-fast", "grok-4-heavy", "grok-4.1",
             "grok-4.1-fast", "grok-4.1-expert", "grok-4.1-thinking"}

CandidateIds(r) == {r.candidates[i] : i \in DOMAIN r.candidates}

\* C23: with an empty remote cache, resolveModelInfo of the wildcard query
\* "grok-4*" returns as candidate ids exactly the builtin ids that start
\* with "grok-4", and resolveModelInfo of the prefix query "grok-4" returns
\* the same candidate set.
C23_Grok4Candidates ==
  (/\ resolved.matchedBy # "pending"
   /\ xaiModelCache.ids = <<>>
   /\ requestedType = ""
   /\ requestedModel \in {"grok-4*", "grok-4"})
    => CandidateIds(resolved) = Grok4Ids

---------------------------------------------------------------------------
(* Termination of the image coordinators (SpecRetry).                      *)

\* C24: an image-generation request makes a bounded number of generation
\* attempts whatever the upstream returns: every attempt that has ended
\* either switched the credential (retryCount, at most MAX_RETRIES) or
\* collected an image (at most count), so that an attempt ending with `done`
\* short of the requested count is not followed by attempt after attempt.
C24_AttemptsBounded ==
  Kind(route) = "image" => attempts <= retryCount + collected + 1


---------------------------------------------------------------------------
\* C25: in a session, an image message with a job id that is complete (blob
\* longer than 100000 characters or a URL ending in ".jpg"), is not moderated
\* and whose job has not been emitted yet is added to the results when it
\* arrives, whatever was received for that job before.
CompleteUnemitted(data) ==
  /\ data.type = "image"
  /\ data.job_id # 0
  /\ IsFullImage(data)
  /\ ~data.moderated
  /\ data.job_id \notin emittedJobs

C25_CompleteImageEmitted ==
  \A data \in WsMessages :
    CompleteUnemitted(data) => EmitsImage(data, receivedImages, emittedJobs)


\* C26: the settle-delay timer that resolves a session as batch-complete is
\* armed only when at least 6 distinct jobs have reported a completed (100%)
\* or failed status; a job in both sets, or the empty job id, counts once.
DistinctDoneJobs == completedJobs \cup failedJobs

C26_BatchNeedsSixJobs ==
  timer => Cardinality(DistinctDoneJobs) >= BatchSize


\* C27: a session that is not yet settled rejects when an error message
\* arrives, rejects as rate-limited when the socket closes with code 1008 or
\* 429, and resolves with the results collected so far when the timeout fires
\* or the socket closes with another code; a rejection carries the error
\* only, so the results collected before it do not reach the driver.
Rejected == outcome \notin {"pending", "resolved"}

C27_SettleOutcomes ==
  [][~settled =>
       /\ \A data \in WsMessages :
            (data.type = "error" /\ handleWsPayload(data)) =>
              /\ outcome' = IF data.message # "" THEN data.message
                            ELSE "Unknown error"
              /\ Rejected'
       /\ \A code \in {1008, 429} :
            OnClose(code) => outcome' = "Rate limited (429)" /\ Rejected'
       /\ (OnTimeout \/ OnClose(1000)) =>
            outcome' = "resolved" /\ results' = results]_vars

C27_Witness ==
  /\ outcome = "Rate limited (429)"
  /\ results # <<>>
  /\ readyState = "closed"


\* C28: a session settles exactly once: once it has resolved or rejected, no
\* later timeout, settle-delay timer, message, error or close event changes
\* its outcome, and a settled session has its timeout cleared and its socket
\* no longer open or connecting.
C28_SettlesOnce ==
  /\ [](settled <=> outcome # "pending")
  /\ [](settled => ~timeoutArmed /\ readyState \notin {"open", "connecting"})
  /\ [][settled => settled' /\ outcome' = outcome]_vars

\* Rejected by an error message, and the close event came afterwards, with
\* the batch already counted as done.
C28_Witness ==
  /\ outcome = "Invalid prompt"
  /\ readyState = "closed"
  /\ Cardinality(completedJobs) + Cardinality(failedJobs) >= BatchSize
  /\ ~timer


\* C29: the promise resolves with the results array itself, so what the
\* driver holds after a resolution is the variable results; no message that
\* arrives after the session has resolved changes it.
C29_ResolvedResultsFixed ==
  [][outcome = "resolved" => results' = results]_vars


---------------------------------------------------------------------------
(* Claims about the image events of a driver run (SpecDriver).             *)

IsImageUpdate(e) == e.type = "image"
ImageEvents == SelectSeq(drvEvents, IsImageUpdate)

\* C30: over all sessions of one driver run no job id is in two image
\* events, every image event has a non-empty URL and is not moderated, and
\* there are never more image events than the requested count.
C30_ImageEvents ==
  /\ \A i, j \in DOMAIN ImageEvents :
       i # j => ImageEvents[i].job_id # ImageEvents[j].job_id
  /\ \A i \in DOMAIN ImageEvents :
       ImageEvents[i].url # "" /\ ~ImageEvents[i].moderated
  /\ Len(ImageEvents) <= drvCount

\* Two sessions returned more new images than were asked for; the run took
\* the requested number and ended.
C30_Witness ==
  /\ drvPc = "ended"
  /\ drvCount >= 3
  /\ Len(sessions) = 2
  /\ sessions[1].fresh < drvCount
  /\ sessions[1].fresh > 0
  /\ sessions[1].fresh + sessions[2].fresh > drvCount
  /\ Len(ImageEvents) = drvCount


\* C31: when a session rejects the driver emits exactly one error event, as
\* its last event, opens no further session and emits no done; a rejection
\* whose message contains "429" or "Rate limited" is reported as
\* "Rate limited (429)", any other with its own message.  A run in which no
\* session rejects emits no error and ends with done.
EventsOfType(type) == {i \in DOMAIN drvEvents : drvEvents[i].type = type}
LastDriverEvent == drvEvents[Len(drvEvents)]

C31_RejectionEndsRun ==
  /\ [](~NoRejection =>
          /\ drvPc = "ended"
          /\ sessions[Len(sessions)].rejected
          /\ \A i \in 1..(Len(sessions) - 1) : ~sessions[i].rejected
          /\ EventsOfType("error") = {Len(drvEvents)}
          /\ EventsOfType("done") = {})
  /\ [](NoRejection =>
          /\ EventsOfType("error") = {}
          /\ drvPc = "ended" => EventsOfType("done") = {Len(drvEvents)})
  /\ [][\A message \in SessionRejections :
          DriverPageRejects(message) =>
            LastDriverEvent'.message =
              IF includes(message, "429") \/ includes(message, "Rate limited")
              THEN "Rate limited (429)" ELSE message]_vars
  /\ [][~NoRejection => UNCHANGED <<drvEvents, sessions>>]_vars

\* The second session was rejected by an upgrade answered with HTTP 429 or a
\* rate-limit close, after the first had given images.
C31_Witness ==
  /\ Len(sessions) = 2
  /\ sessions[2].rejected
  /\ sessions[1].fresh > 0
  /\ LastDriverEvent = StreamUpdate("error", 0, 0, "Rate limited (429)")
  /\ EventsOfType("image") # {}


---------------------------------------------------------------------------
(* Claims about chunking and the end of a chat stream (SpecThink).         *)

\* The loop body applied to every line in turn, as when each line arrives in
\* a chunk of its own.
RECURSIVE LineByLine(_, _, _)
LineByLine(lines, st, show) ==
  IF lines = <<>> THEN st
  ELSE LineByLine(Tail(lines), handleLine(st, Head(lines), show), show)

EventsOfLines(lines, show) ==
  LET st == LineByLine(lines, ReadState(FALSE, FALSE, <<>>, FALSE), show)
  IN st.events \o FinalEvents(st.isThinking, show)

\* C32: the events of a finished text stream are a function of the lines the
\* upstream sent, whatever the chunk boundaries were: they are the events of
\* processing every line, those after a modelResponse line included.
C32_ChunkingIrrelevant ==
  chat_pc = "done" => events = EventsOfLines(consumed, showThinking)


\* C33: a run of the text stream that has ended, normally or because reading
\* the body failed, has emitted exactly one terminal event (done or error)
\* and that event is its last.
TerminalTypes == {"done", "error"}

C33_OneTerminalEvent ==
  chat_pc # "reading" =>
    /\ events # <<>>
    /\ events[Len(events)].type \in TerminalTypes
    /\ \A i \in 1..(Len(events) - 1) : events[i].type \notin TerminalTypes


---------------------------------------------------------------------------
(* Claims about the video orchestrator (SpecVideo).                        *)

IsCreate(c) == c.op = "create"
Creates == SelectSeq(vidCalls, IsCreate)
CallsOf(op) == {i \in DOMAIN vidCalls : vidCalls[i].op = op}
JpgVariant(url) == SubSeq(url, 1, Len(url) - 4) \o ".jpg"
Bootstrapped == video.pc \notin {"like", "create", "relike", "request"}

\* C35: the bootstrap calls go out in this order: like(postId); if it fails,
\* create-post with the image URL as given and then, if that gave no post id
\* and the URL ends in .png, create-post with the .jpg variant; if a post was
\* created, a like with the new post id; then exactly one generation request,
\* with the created post id if there is one and the original postId
\* otherwise.
C35_BootstrapOrder ==
  /\ (vidCalls # <<>> => vidCalls[1] = VideoCall("like", vidArgs.parentPostId))
  /\ Len(Creates) <= 2
  /\ (Creates # <<>> =>
        /\ vidCalls[2] = Creates[1]
        /\ Creates[1].arg = vidArgs.imageUrl)
  /\ (Len(Creates) = 2 =>
        /\ endsWith(vidArgs.imageUrl, ".png")
        /\ Creates[2].arg = JpgVariant(vidArgs.imageUrl))
  /\ \A i \in CallsOf("like") :
       i > 1 => /\ vidCalls[i - 1].op = "create"
                /\ vidCalls[i].arg = PostOf(vidCalls[i - 1].arg)
  /\ CallsOf("generate") \subseteq {Len(vidCalls)}
  /\ (Bootstrapped =>
        /\ CallsOf("generate") = {Len(vidCalls)}
        /\ vidCalls[Len(vidCalls)].arg =
             IF \E i \in CallsOf("like") : i > 1
             THEN vidCalls[Len(vidCalls) - 1].arg
             ELSE vidArgs.parentPostId)


EventsOfKind(type) == {i \in DOMAIN vidEvents : vidEvents[i].type = type}

\* C34: `complete` is emitted at most once, only after the progress stream
\* has ended with a job id and a media URL recorded and no moderated line
\* read, and is immediately followed by `done` as the last event; a stream
\* that ends without a job id or without a media URL gives an
\* incomplete-result error and neither complete nor done; a moderated line
\* ends the run with one error and nothing after it.
C34_CompleteOnce ==
  /\ Cardinality(EventsOfKind("complete")) <= 1
  /\ \A i \in EventsOfKind("complete") :
       /\ video.exit = "complete"
       /\ video.videoId # "" /\ video.videoUrl # ""
       /\ ~video.moderatedSeen
       /\ vidEvents[i].video_id = video.videoId
       /\ i = Len(vidEvents) - 1
       /\ vidEvents[Len(vidEvents)] = VideoDone
  /\ EventsOfKind("done") # {} => EventsOfKind("complete") # {}
  /\ (video.exit = "complete" <=> EventsOfKind("complete") # {})
  /\ (video.exit = "incomplete" =>
        /\ video.videoId = "" \/ video.videoUrl = ""
        /\ vidEvents[Len(vidEvents)] = VideoError(IncompleteMessage)
        /\ EventsOfKind("error") = {Len(vidEvents)}
        /\ EventsOfKind("complete") = {} /\ EventsOfKind("done") = {})
  /\ (video.moderatedSeen =>
        /\ video.pc = "ended"
        /\ vidEvents[Len(vidEvents)] = VideoError(ModeratedMessage)
        /\ EventsOfKind("error") = {Len(vidEvents)}
        /\ EventsOfKind("complete") = {} /\ EventsOfKind("done") = {})
  /\ (video.pc = "ended" /\ video.exit \notin {"complete", "incomplete"} =>
        EventsOfKind("complete") = {})

\* The job id and the media URL came in different chunks, after progress
\* updates, and the run completed.
C34_Witness ==
  /\ video.exit = "complete"
  /\ video.reads = 2
  /\ Len(vidEvents) >= 4
  /\ vidEvents[Len(vidEvents) - 1].type = "complete"
  /\ vidEvents[Len(vidEvents) - 1].url = "https://assets.grok.com/u.mp4"
  /\ Len(vidCalls) = 4


---------------------------------------------------------------------------
(* Claims about what the image and chat coordinators keep (SpecRetry).     *)

\* The images the caller has in hand: the image events of the SSE route; for
\* the JSON route the data array of the 200 response, which is
\* collectedImages (an error response carries none).
ImagesReceived ==
  IF route = "imagine"
  THEN Cardinality({i \in DOMAIN out : out[i].type = "image"})
  ELSE IF out # <<>> /\ out[Len(out)] = Response("images", 200)
       THEN collected ELSE 0

\* C36: in the image coordinators the running total never decreases and
\* never exceeds the requested count, and every image collected in any
\* attempt is part of what the caller has received when the request ends.
C36_ImagesKept ==
  /\ [](Kind(route) = "image" =>
          /\ collected <= count
          /\ pc = "closed" => ImagesReceived = collected)
  /\ [][Kind(route) = "image" => collected' >= collected]_vars


\* C37: within one chat-completion or video request, whenever an attempt is
\* followed by another attempt the credential of the earlier attempt is in
\* the exclusion list when the next credential is picked.
C37_NoCredentialTwice ==
  [][(Kind(route) \in {"chat", "video"} /\ attempts > 0 /\ attempts' > attempts)
       => BagIn(token, excludedTokenIds)]_vars


\* C38: every credential an attempt is started with has status active in the
\* store at the moment it is selected, the one the caller named included.
C38_SelectedIsActive ==
  [][attempts' > attempts => tokens[token'].status = "active"]_vars


\* The listing request that came back last was answered with a 2xx status.
LastFetchSucceeded ==
  syncLast.response.kind = "http" /\ ok(syncLast.response.status)

\* No id occurs twice in the list, and none is empty or untrimmed.
Deduplicated(ids) ==
  /\ \A i, j \in 1..Len(ids) : ids[i] = ids[j] => i = j
  /\ \A i \in 1..Len(ids) : ids[i] # "" /\ trim(ids[i]) = ids[i]

ExactHits(cands, q) ==
  {i \in DOMAIN cands : normalizeModelId(cands[i].id) = q}
Matching(cands, q) ==
  {i \in DOMAIN cands :
     IF includes(q, "*") THEN wildcardTest(q, cands[i].id)
     ELSE startsWith(normalizeModelId(cands[i].id), q)}
AliasHit(aliasResolved) ==
  /\ aliasResolved # NoModel
  /\ requestedType = "" \/ aliasResolved.type = requestedType

\* a comes before b: builtin before remote, then the shorter id, then the
\* id that is first in lexicographic order.
ComesFirst(a, b) ==
  \/ a.source = "builtin" /\ b.source # "builtin"
  \/ a.source = b.source /\ Len(a.id) < Len(b.id)
  \/ /\ a.source = b.source /\ Len(a.id) = Len(b.id)
     /\ localeBefore(normalizeModelId(a.id), normalizeModelId(b.id))

\* What a resolve call over the candidates cands returned for the query q,
\* exact, aliasResolved and matching being the three lookups of q.
ResolvedInOrder(cands, q, exact, aliasResolved, matching) ==
  /\ exact # {}
       => /\ resolved.matchedBy = "exact"
          /\ \E i \in exact :
               /\ resolved.model = cands[i].model
               /\ resolved.candidates = <<cands[i].id>>
  /\ (exact = {} /\ AliasHit(aliasResolved))
       => /\ resolved.matchedBy = "alias"
          /\ resolved.model = aliasResolved
  /\ (exact = {} /\ ~AliasHit(aliasResolved) /\ matching # {})
       => /\ resolved.matchedBy = (IF includes(q, "*") THEN "wildcard" ELSE "prefix")
          /\ \E i \in matching :
               /\ \A j \in matching \ {i} : ComesFirst(cands[i], cands[j])
               /\ resolved.model = cands[i].model
          /\ CandidateIds(resolved) = {cands[j].id : j \in matching}
          /\ Len(resolved.candidates) = Cardinality(matching)
  /\ (exact = {} /\ ~AliasHit(aliasResolved) /\ matching = {})
       => resolved.matchedBy = "none"
  /\ (resolved.model # NoModel /\ requestedType # "")
       => resolved.model.type = requestedType

ResolvedFor(cands, q) ==
  ResolvedInOrder(cands, q, ExactHits(cands, q), AliasModel(q), Matching(cands, q))

\* C40: resolveModelInfo tries an exact id match, then the alias table, then
\* prefix or wildcard matching, in that order; of several prefix or wildcard
\* matches the descriptor returned is that of the match that comes first by
\* (builtin before remote, shorter id, lexicographic id) and the candidate
\* list holds the id of every match; with a type filter the descriptor
\* returned always has that type.
C40_ResolveOrder ==
  (resolved.matchedBy # "pending" /\ trim(requestedModel) # "")
    => ResolvedFor(getCandidateModels(xaiModelCache.ids, requestedType),
                   normalizeModelId(trim(requestedModel)))

\* A prefix query with a type filter that three builtin ids and one remote
\* id match, the descriptor returned being neither the first match of the
\* list nor the remote one.
C40_Witness ==
  /\ resolved.matchedBy = "prefix"
  /\ requestedModel = "grok-4-" /\ requestedType = "text"
  /\ resolved.candidates = <<"grok-4-mini", "grok-4-fast", "grok-4-heavy", "grok-4-0709">>
  /\ resolved.model.id = "grok-4-fast"

===========================================================================
